---- MODULE Spec2Model ----
(***************************************************************************)
(* code-detox: the module dependency graph (GraphBuilder), the unused-file *)
(* classifier (StaleDetector), the unused-import classifier (UnusedFinder), *)
(* the dead-code classifier (DeadCodeDetector) and the dependency          *)
(* cross-check (ConfigAnalyzer).                                           *)
(*                                                                         *)
(* Strings of the program (paths, import sources, package names) are       *)
(* sequences of one-character strings, so that startsWith, includes,       *)
(* split, dirname, extname and concatenation are computed as the code      *)
(* computes them.  Identifier names are atoms: the code only tests them    *)
(* for membership in a set.                                                *)
(***************************************************************************)
EXTENDS Integers, Sequences, FiniteSets, TLC

VARIABLES
    disk,           \* the project on disk: scanned files (in glob order), facts per file, manifest
    pc,             \* position of the operation in progress
    idx,            \* index of the next file in the operation's loop over the files
    nodes,          \* GraphBuilder.nodes: path -> DependencyNode
    keys,           \* insertion order of the keys of GraphBuilder.nodes (a JS Map iterates in it)
    unusedFiles,    \* result of StaleDetector.findUnusedFiles
    cycles,         \* result of GraphBuilder.findCircularDependencies
    unusedImports,  \* result of UnusedFinder.findInProject
    deadCode,       \* result of DeadCodeDetector.detectInProject
    allImports,     \* ConfigAnalyzer.analyzePackageJson: the Set of package names, in insertion order
    pkgAnalysis,    \* result of ConfigAnalyzer.analyzePackageJson
    done,           \* the operations that have returned
    reports,        \* the DetoxReports that Scanner.scan has returned, in call order
    resolutions,    \* the results of the calls of FileUtils.resolveImportPath, in call order
    cmd,            \* the command line of the cli: command and options
    text,           \* the source files as the Fixer finds them: path -> lines
    fixerOps        \* the Fixer operations that the cli has invoked, in call order

\* the variables of the cli and of the calls that the classifiers do not touch
others == <<reports, resolutions, cmd, text, fixerOps>>

vars == <<disk, pc, idx, nodes, keys, unusedFiles, cycles, unusedImports, deadCode,
          allImports, pkgAnalysis, done, reports, resolutions, cmd, text,
          fixerOps>>

(***************************************************************************)
(* Strings.                                                                *)
(***************************************************************************)
Range(s) == {s[i] : i \in 1..Len(s)}

\* String.prototype.startsWith
StartsWith(s, p) == Len(p) <= Len(s) /\ SubSeq(s, 1, Len(p)) = p

\* String.prototype.endsWith
EndsWith(s, p) == Len(p) <= Len(s) /\ SubSeq(s, Len(s) - Len(p) + 1, Len(s)) = p

\* String.prototype.includes
Includes(s, p) == \E i \in 1..(Len(s) - Len(p) + 1) : SubSeq(s, i, i + Len(p) - 1) = p

\* Array.prototype.indexOf, 1-based; 0 when absent
IndexOf(s, x) == IF \E i \in 1..Len(s) : s[i] = x
                 THEN CHOOSE i \in 1..Len(s) : s[i] = x /\ \A j \in 1..(i-1) : s[j] # x
                 ELSE 0

\* position of the last occurrence of character c in s; 0 when absent
LastIndexOf(s, c) == IF \E i \in 1..Len(s) : s[i] = c
                     THEN CHOOSE i \in 1..Len(s) : s[i] = c /\ \A j \in (i+1)..Len(s) : s[j] # c
                     ELSE 0

RECURSIVE SplitFrom(_, _, _)
SplitFrom(s, c, cur) ==
    IF s = <<>> THEN <<cur>>
    ELSE IF Head(s) = c THEN <<cur>> \o SplitFrom(Tail(s), c, <<>>)
    ELSE SplitFrom(Tail(s), c, Append(cur, Head(s)))

\* String.prototype.split on a one-character separator
Split(s, c) == SplitFrom(s, c, <<>>)

RECURSIVE Join(_, _)
\* Array.prototype.join
Join(parts, c) ==
    IF parts = <<>> THEN <<>>
    ELSE IF Len(parts) = 1 THEN parts[1]
    ELSE parts[1] \o <<c>> \o Join(Tail(parts), c)

(***************************************************************************)
(* Node's path module (POSIX).                                             *)
(***************************************************************************)
RECURSIVE NormalizeSegs(_, _)
\* the segments of an absolute path with "", "." dropped and ".." applied
NormalizeSegs(segs, acc) ==
    IF segs = <<>> THEN acc
    ELSE LET h == Head(segs) IN
         IF h = <<>> \/ h = <<".">> THEN NormalizeSegs(Tail(segs), acc)
         ELSE IF h = <<".", ".">>
              THEN NormalizeSegs(Tail(segs),
                                 IF acc = <<>> THEN acc ELSE SubSeq(acc, 1, Len(acc) - 1))
              ELSE NormalizeSegs(Tail(segs), Append(acc, h))

\* the absolute path made of the segments
FromSegs(segs) == <<"/">> \o Join(segs, "/")

\* path.dirname of an absolute path
Dirname(p) == LET i == LastIndexOf(p, "/") IN
              IF i <= 1 THEN <<"/">> ELSE SubSeq(p, 1, i - 1)

\* path.basename(p)
Basename(p) == SubSeq(p, LastIndexOf(p, "/") + 1, Len(p))

\* path.resolve(dir, to) for an absolute dir: an absolute `to` replaces dir
PathResolve(dir, to) ==
    IF StartsWith(to, <<"/">>)
    THEN FromSegs(NormalizeSegs(Split(to, "/"), <<>>))
    ELSE FromSegs(NormalizeSegs(Split(dir, "/") \o Split(to, "/"), <<>>))

\* path.join(dir, name) for a normalized absolute dir and a plain file name
PathJoin(dir, name) == FromSegs(NormalizeSegs(Split(dir, "/") \o <<name>>, <<>>))

\* path.extname: from the last "." of the basename, "" when there is none or when
\* the basename starts with its only "."
Extname(p) == LET b == Basename(p)
                  i == LastIndexOf(b, ".")
              IN  IF i <= 1 \/ b = <<".", ".">> THEN <<>> ELSE SubSeq(b, i, Len(b))

(***************************************************************************)
(* The file system and the facts the parser extracts from a file.          *)
(***************************************************************************)
\* null: no path and no package version is the empty string
Null == <<>>

\* the files of the project directory /w
PathA     == <<"/","w","/","a",".","t","s">>
PathB     == <<"/","w","/","b",".","t","s">>
PathIndex == <<"/","w","/","d","/","i","n","d","e","x",".","t","s">>
\* on disk, but matched by no scan pattern
PathX     == <<"/","w","/","x",".","j","s","o","n">>

ScanFiles == {PathA, PathB, PathIndex}
DiskFiles == ScanFiles \cup {PathX}

\* fs.existsSync: true of a file and of a directory
ExistsSync(files, p) ==
    \/ p \in files
    \/ p = <<"/">>
    \/ \E f \in files : StartsWith(f, p \o <<"/">>)

\* FileUtils.resolveImportPath's default extensions, in probing order
Extensions == << <<".","j","s">>, <<".","j","s","x">>, <<".","t","s">>,
                 <<".","t","s","x">>, <<".","j","s","o","n">> >>

RECURSIVE LastExisting(_, _, _)
\* FirstExisting that goes on after a match: the last candidate that exists
LastExisting(files, cands, i) ==
    IF i > Len(cands) THEN Null
    ELSE IF LastExisting(files, cands, i + 1) # Null THEN LastExisting(files, cands, i + 1)
    ELSE IF ExistsSync(files, cands[i]) THEN cands[i]
    ELSE Null

RECURSIVE FirstExisting(_, _, _)
\* the first candidate of cands, from candidate i on, that exists, or null
FirstExisting(files, cands, i) ==
    IF i > Len(cands) THEN Null
    ELSE IF ExistsSync(files, cands[i]) THEN cands[i]
    ELSE FirstExisting(files, cands, i + 1)

IndexName(ext) == <<"i","n","d","e","x">> \o ext

\* FileUtils.resolveImportPath(fromFile, importPath)
ResolveImportPath(files, fromFile, importPath) ==
    IF ~StartsWith(importPath, <<".">>) /\ ~StartsWith(importPath, <<"/">>)
    THEN Null
    ELSE LET resolved == PathResolve(Dirname(fromFile), importPath)
             withExt  == [i \in 1..Len(Extensions) |-> resolved \o Extensions[i]]
             indexes  == [i \in 1..Len(Extensions) |->
                              PathJoin(resolved, IndexName(Extensions[i]))]
             probed   == IF Extname(resolved) = <<>>
                         THEN FirstExisting(files, withExt \o indexes, 1)
                         ELSE Null
         IN  IF probed # Null THEN probed
             ELSE IF ExistsSync(files, resolved) THEN resolved ELSE Null

\* Parses that takes every file to be readable and parsable
ParsesAnything(facts) == TRUE

\* FileUtils.readFile and ASTParser.parse succeed on the file (status "ok"); either
\* one throwing is status "throws"
Parses(facts) == facts.status = "ok"

\* ASTParser.extractImports: the import declarations, in source order.  Its
\* traversal has the ImportDeclaration visitor alone, so the require() calls of the
\* file (facts.requires) add nothing
ExtractImports(facts) == facts.imports

\* ASTParser.extractExports
ExtractExports(facts) == facts.exports

\* the facts of an empty file.  idents: the Identifier nodes of the syntax tree, each
\* with its name and its place in its parent; funcs: the function nodes, each with
\* the statements of its body; decls: the declarators and function declarations
\* catches: the catch clauses; requires: the require() calls, each with the
\* string of its argument and its line
NoFacts == [status |-> "ok", imports |-> <<>>, idents |-> {}, exports |-> <<>>,
            funcs |-> <<>>, decls |-> <<>>, catches |-> <<>>, requires |-> <<>>]

(***************************************************************************)
(* GraphBuilder.                                                           *)
(***************************************************************************)
\* a node as build creates it
FreshNode(p) == [path |-> p, imports |-> <<>>, importedBy |-> <<>>, exports |-> <<>>]

\* build's first loop: nodes.set(file, fresh node) for every file
InitNodes(ns, files) ==
    [p \in (DOMAIN ns) \cup Range(files) |->
        IF p \in Range(files) THEN FreshNode(p) ELSE ns[p]]

\* the keys of the Map after the first loop: a key that is set again keeps its place
InitKeys(ks, files) == ks \o SelectSeq(files, LAMBDA p : p \notin Range(ks))

\* EdgeTarget without the nodes.has test
EdgeTargetAnyPath(ns, exists, filePath, source) ==
    ResolveImportPath(exists, filePath, source)

\* processFile's test of one import: the resolved path when it is non-null and a
\* key of nodes, else null
EdgeTarget(ns, exists, filePath, source) ==
    LET resolvedPath == ResolveImportPath(exists, filePath, source)
    IN  IF resolvedPath # Null /\ resolvedPath \in DOMAIN ns THEN resolvedPath ELSE Null

\* AddEdge without the push on the imported node
AddEdgeOneSided(ns, filePath, resolvedPath) ==
    [ns EXCEPT ![filePath].imports = Append(@, resolvedPath)]

\* processFile's two pushes for one import that passed the test
AddEdge(ns, filePath, resolvedPath) ==
    [ns EXCEPT ![filePath].imports = Append(@, resolvedPath),
               ![resolvedPath].importedBy = Append(@, filePath)]

RECURSIVE AddEdges(_, _, _, _, _)
\* processFile's loop over the imports, from import i on
AddEdges(ns, exists, filePath, imports, i) ==
    IF i > Len(imports) THEN ns
    ELSE LET t == EdgeTarget(ns, exists, filePath, imports[i].source)
         IN  AddEdges(IF t = Null THEN ns ELSE AddEdge(ns, filePath, t),
                      exists, filePath, imports, i + 1)

\* GraphBuilder.processFile: nodes after it.  A file that cannot be read or parsed
\* throws before the loop, and the catch leaves the nodes as they are.
ProcessFileNodes(ns, d, filePath) ==
    IF filePath \notin DOMAIN ns \/ ~Parses(d.facts[filePath]) THEN ns
    ELSE LET withEdges == AddEdges(ns, d.exists, filePath,
                                   ExtractImports(d.facts[filePath]), 1)
         IN  [withEdges EXCEPT ![filePath].exports = ExtractExports(d.facts[filePath])]

\* StaleDetector.findUnusedFiles' entry points
EntryPoints == {
    <<"i","n","d","e","x">>, <<"m","a","i","n">>, <<"a","p","p">>, <<"_","a","p","p">>,
    <<"s","e","r","v","e","r">>, <<"c","o","n","f","i","g">>,
    <<"v","i","t","e",".","c","o","n","f","i","g">>,
    <<"w","e","b","p","a","c","k",".","c","o","n","f","i","g">>,
    <<"n","e","x","t",".","c","o","n","f","i","g">>,
    <<"t","a","i","l","w","i","n","d",".","c","o","n","f","i","g">>,
    <<"j","e","s","t",".","c","o","n","f","i","g">>,
    <<"t","e","s","t">>, <<"s","p","e","c">>, <<".","t","e","s","t">>,
    <<".","s","p","e","c">> }

\* IsUnusedFile without the entry-point test
IsUnusedFileNoEntry(ns, entryPoints, filePath) ==
    Len(ns[filePath].importedBy) = 0

\* getUnusedFiles' test of one node
IsUnusedFile(ns, entryPoints, filePath) ==
    /\ ~\E entry \in entryPoints : Includes(filePath, entry)
    /\ Len(ns[filePath].importedBy) = 0

\* GraphBuilder.getUnusedFiles: the nodes, in Map order, that pass the test
GetUnusedFiles(ns, ks, entryPoints) ==
    SelectSeq(ks, LAMBDA filePath : IsUnusedFile(ns, entryPoints, filePath))

\* SliceFrom that ignores cycleStart: the whole path
SliceWhole(path, k) == path

\* path.slice(cycleStart) for the 1-based index k of indexOf; indexOf's -1 (k = 0)
\* makes slice(-1), the last element
SliceFrom(path, k) == IF k = 0 THEN SubSeq(path, Len(path), Len(path))
                      ELSE SubSeq(path, k, Len(path))

\* what dfs does with an import that is on the recursion stack
EmitCycle(st, path, imported) ==
    [st EXCEPT !.cycles = Append(@, SliceFrom(path, IndexOf(path, imported)))]

RECURSIVE Dfs(_, _, _, _)
RECURSIVE DfsImports(_, _, _, _, _)
\* Dfs that never puts the node on the recursion stack
DfsNoRecStack(ns, node, path, st) ==
    LET entered == [st EXCEPT !.visited = @ \cup {node}, !.calls = Append(@, node)]
        pushed  == Append(path, node)
    IN  IF node \in DOMAIN ns
        THEN DfsImports(ns, ns[node].imports, 1, pushed, entered)
        ELSE entered

\* findCircularDependencies' dfs(node, path); st holds visited, recStack and cycles,
\* and calls, the nodes in the order in which dfs was entered for them
Dfs(ns, node, path, st) ==
    LET entered == [st EXCEPT !.visited = @ \cup {node}, !.recStack = @ \cup {node},
                              !.calls = Append(@, node)]
        pushed  == Append(path, node)
        after   == IF node \in DOMAIN ns
                   THEN DfsImports(ns, ns[node].imports, 1, pushed, entered)
                   ELSE entered
    IN  [after EXCEPT !.recStack = @ \ {node}]

RECURSIVE DfsImportsRevisit(_, _, _, _, _)
\* DfsImports that enters every import that is not on the recursion stack, visited
\* or not
DfsImportsRevisit(ns, imports, i, path, st) ==
    IF i > Len(imports) THEN st
    ELSE LET imported == imports[i]
             next == IF imported \notin st.recStack THEN Dfs(ns, imported, path, st)
                     ELSE EmitCycle(st, path, imported)
         IN  DfsImports(ns, imports, i + 1, path, next)

\* dfs's loop over nodeData.imports, from import i on
DfsImports(ns, imports, i, path, st) ==
    IF i > Len(imports) THEN st
    ELSE LET imported == imports[i]
             next == IF imported \notin st.visited THEN Dfs(ns, imported, path, st)
                     ELSE IF imported \in st.recStack THEN EmitCycle(st, path, imported)
                     ELSE st
         IN  DfsImports(ns, imports, i + 1, path, next)

RECURSIVE DfsRootsAll(_, _, _, _)
\* DfsRoots without the visited test: every key is a traversal root
DfsRootsAll(ns, ks, i, st) ==
    IF i > Len(ks) THEN st
    ELSE DfsRootsAll(ns, ks, i + 1, Dfs(ns, ks[i], <<>>, st))

RECURSIVE DfsRoots(_, _, _, _)
\* findCircularDependencies' loop over the keys, from key i on
DfsRoots(ns, ks, i, st) ==
    IF i > Len(ks) THEN st
    ELSE DfsRoots(ns, ks, i + 1,
                  IF ks[i] \notin st.visited THEN Dfs(ns, ks[i], <<>>, st) ELSE st)

\* the traversal of findCircularDependencies from empty visited and recStack sets
Traverse(ns, ks) ==
    DfsRoots(ns, ks, 1, [visited |-> {}, recStack |-> {}, cycles |-> <<>>, calls |-> <<>>])

\* GraphBuilder.findCircularDependencies
FindCircularDependencies(ns, ks) == Traverse(ns, ks).cycles

(***************************************************************************)
(* StaleDetector.                                                          *)
(***************************************************************************)
UpperCase == <<"A","B","C","D","E","F","G","H","I","J","K","L","M",
               "N","O","P","Q","R","S","T","U","V","W","X","Y","Z">>
LowerCase == <<"a","b","c","d","e","f","g","h","i","j","k","l","m",
               "n","o","p","q","r","s","t","u","v","w","x","y","z">>

\* the string in lower case: the stale patterns are matched with the i flag
ToLower(s) == [i \in 1..Len(s) |->
                  IF IndexOf(UpperCase, s[i]) = 0 THEN s[i]
                  ELSE LowerCase[IndexOf(UpperCase, s[i])]]

\* path.basename(filename, path.extname(filename))
BasenameNoExt(p) == LET b == Basename(p)
                    IN  SubSeq(b, 1, Len(b) - Len(Extname(p)))

\* IsStaleFilename whose patterns lack the i flag
IsStaleFilenameCaseSensitive(filename) ==
    LET b == BasenameNoExt(filename) IN
    \/ \E s \in { <<".","o","l","d">>, <<".","b","a","c","k","u","p">>,
                  <<".","c","o","p","y">>, <<".","b","a","k">>, <<"_","o","l","d">>,
                  <<"_","b","a","c","k","u","p">>, <<"_","c","o","p","y">> } : EndsWith(b, s)
    \/ \E l \in { <<"o","l","d","-">>, <<"o","l","d","_">>, <<"b","a","c","k","u","p","-">>,
                  <<"b","a","c","k","u","p","_">> } : StartsWith(b, l)
    \/ Includes(b, <<".","d","e","p","r","e","c","a","t","e","d">>)

\* FileUtils.isStaleFilename
IsStaleFilename(filename) ==
    LET b == ToLower(BasenameNoExt(filename)) IN
    \/ EndsWith(b, <<".","o","l","d">>)
    \/ EndsWith(b, <<".","b","a","c","k","u","p">>)
    \/ EndsWith(b, <<".","c","o","p","y">>)
    \/ EndsWith(b, <<".","b","a","k">>)
    \/ EndsWith(b, <<"_","o","l","d">>)
    \/ EndsWith(b, <<"_","b","a","c","k","u","p">>)
    \/ EndsWith(b, <<"_","c","o","p","y">>)
    \/ StartsWith(b, <<"o","l","d","-">>) \/ StartsWith(b, <<"o","l","d","_">>)
    \/ StartsWith(b, <<"b","a","c","k","u","p","-">>)
    \/ StartsWith(b, <<"b","a","c","k","u","p","_">>)
    \/ Includes(b, <<".","d","e","p","r","e","c","a","t","e","d">>)

\* StaleDetector.findUnusedFiles after the build: one UnusedFile per file of
\* getUnusedFiles, with its reason
UnusedFilesOf(ns, ks) ==
    LET graphUnused == GetUnusedFiles(ns, ks, EntryPoints)
    IN  [i \in 1..Len(graphUnused) |->
            [path   |-> graphUnused[i],
             reason |-> IF IsStaleFilename(graphUnused[i]) THEN "stale" ELSE "never-imported"]]

(***************************************************************************)
(* The projects of the graph specification: the three scanned files in a   *)
(* glob order, at most MaxImports import declarations between them, and at *)
(* most one file that cannot be read or parsed.                            *)
(***************************************************************************)
MaxImports == 3

\* the import sources a file's text may hold
Sources(p) ==
    IF p = PathA THEN { <<".","/","b">>, <<"/","w","/","b",".","t","s">>, <<".","/","d">>,
                        <<".","/","x">>, <<"l","o","d","a","s","h">> }
    ELSE IF p = PathB THEN { <<".","/","a">>, <<".","/","d">> }
    ELSE { <<".",".","/","a">>, <<".">> }

\* import declarations without bindings, one per line, for the sources
SideEffectImports(srcs) ==
    [i \in 1..Len(srcs) |-> [source |-> srcs[i], specifiers |-> <<>>, line |-> i]]

\* the glob orders: every file comes first once, and every two files come in both
\* orders
Orders == { <<PathA, PathB, PathIndex>>, <<PathB, PathIndex, PathA>>,
            <<PathIndex, PathA, PathB>> }

ImportCounts == {c \in [ScanFiles -> 0..MaxImports] :
                    c[PathA] + c[PathB] + c[PathIndex] <= MaxImports}

Statuses == {[p \in ScanFiles |-> "ok"]}
            \cup {[p \in ScanFiles |-> IF p = q THEN "throws" ELSE "ok"] : q \in ScanFiles}

\* the facts of the three files for their statuses and import sources
GraphFacts(st, a, b, x) ==
    [p \in ScanFiles |->
        [NoFacts EXCEPT !.status = st[p],
                        !.imports = SideEffectImports(
                            IF p = PathA THEN a ELSE IF p = PathB THEN b ELSE x),
                        !.exports = <<"default">>]]

\* a project without package.json
NoManifest == [present |-> FALSE, readable |-> FALSE, dependencies |-> <<>>,
               devDependencies |-> <<>>]

\* a package.json that is no JSON text
BadManifest == [present |-> TRUE, readable |-> FALSE, dependencies |-> <<>>,
                devDependencies |-> <<>>]

\* HasManifest that takes every project to have a manifest
HasManifestAlways(pkg) == TRUE

\* FileUtils.getPackageJson returns an object: the file was read and JSON.parse did
\* not throw; else the catch returns null
HasManifest(pkg) == pkg.present /\ pkg.readable

GraphProject(o, f) == [files |-> o, exists |-> DiskFiles, facts |-> f, pkg |-> NoManifest]

NoAnalysis == [unused |-> <<>>, missing |-> <<>>]

\* no command line
NoCmd == [command |-> "none"]

\* no scan has returned, no path was resolved and no command runs
Idle ==
    /\ reports = <<>>
    /\ resolutions = <<>>
    /\ cmd = NoCmd
    /\ text = <<>>
    /\ fixerOps = <<>>

\* a new GraphBuilder and no result yet
FreshState ==
    /\ pc = "start"
    /\ idx = 1
    /\ nodes = <<>>
    /\ keys = <<>>
    /\ unusedFiles = <<>>
    /\ cycles = <<>>
    /\ unusedImports = <<>>
    /\ deadCode = <<>>
    /\ allImports = <<>>
    /\ pkgAnalysis = NoAnalysis
    /\ done = {}

Fresh == FreshState /\ Idle

Init ==
    /\ \E o \in Orders, st \in Statuses, c \in ImportCounts :
          \E a \in [1..c[PathA] -> Sources(PathA)], b \in [1..c[PathB] -> Sources(PathB)],
             x \in [1..c[PathIndex] -> Sources(PathIndex)] :
                disk = GraphProject(o, GraphFacts(st, a, b, x))
    /\ Fresh

\* GraphBuilder.build's first loop, as StaleDetector.findUnusedFiles calls it
BuildNodes ==
    /\ pc = "start"
    /\ nodes' = InitNodes(nodes, disk.files)
    /\ keys' = InitKeys(keys, disk.files)
    /\ idx' = 1
    /\ pc' = "edges"
    /\ UNCHANGED <<others, disk, unusedFiles, cycles, unusedImports, deadCode, allImports,
                   pkgAnalysis, done>>

\* one iteration of build's second loop: processFile(file); build returns after
\* the last one
ProcessFile ==
    /\ pc = "edges"
    /\ idx <= Len(disk.files)
    /\ nodes' = ProcessFileNodes(nodes, disk, disk.files[idx])
    /\ idx' = idx + 1
    /\ pc' = IF idx = Len(disk.files) THEN "built" ELSE "edges"
    /\ UNCHANGED <<others, disk, keys, unusedFiles, cycles, unusedImports, deadCode, allImports,
                   pkgAnalysis, done>>

\* the rest of StaleDetector.findUnusedFiles: getUnusedFiles and the reasons
FindUnusedFiles ==
    /\ pc = "built"
    /\ "files" \notin done
    /\ unusedFiles' = UnusedFilesOf(nodes, keys)
    /\ done' = done \cup {"files"}
    /\ UNCHANGED <<others, disk, pc, idx, nodes, keys, cycles, unusedImports, deadCode,
                   allImports, pkgAnalysis>>

\* GraphBuilder.findCircularDependencies on the built graph
FindCycles ==
    /\ pc = "built"
    /\ "cycles" \notin done
    /\ cycles' = FindCircularDependencies(nodes, keys)
    /\ done' = done \cup {"cycles"}
    /\ UNCHANGED <<others, disk, pc, idx, nodes, keys, unusedFiles, unusedImports, deadCode,
                   allImports, pkgAnalysis>>

Next == BuildNodes \/ ProcessFile \/ FindUnusedFiles \/ FindCycles

Spec == Init /\ [][Next]_vars

(***************************************************************************)
(* UnusedFinder.                                                           *)
(***************************************************************************)
\* the places of an Identifier node that extractIdentifiers skips: the key of an
\* ObjectProperty (computed or not), the property of a non-computed
\* MemberExpression, and a child of an import specifier
SkippedPlaces == {"objectKey", "computedKey", "member", "importBinding"}

\* the places it counts: any other Identifier node
CountedPlaces == {"reference", "declaration", "computedMember"}

\* the Identifier nodes of the import declarations themselves
BindingIdents(imports) ==
    UNION {{[name |-> imports[i].specifiers[k], at |-> "importBinding"] :
               k \in DOMAIN imports[i].specifiers} : i \in DOMAIN imports}

\* ExtractIdentifiers without the import-specifier test
ExtractIdentifiersWithBindings(facts) ==
    {o.name : o \in {x \in facts.idents : x.at \notin {"objectKey", "computedKey", "member"}}}

\* ASTParser.extractIdentifiers
ExtractIdentifiers(facts) ==
    {o.name : o \in {x \in facts.idents : x.at \notin SkippedPlaces}}

RECURSIVE UnusedSpecifiers(_, _, _, _, _)
\* findInFile's inner loop over imp.specifiers, from specifier k on
UnusedSpecifiers(filePath, imp, used, k, acc) ==
    IF k > Len(imp.specifiers) THEN acc
    ELSE UnusedSpecifiers(filePath, imp, used, k + 1,
            IF imp.specifiers[k] \notin used
            THEN Append(acc, [file |-> filePath, line |-> imp.line,
                              importName |-> imp.specifiers[k], from |-> imp.source])
            ELSE acc)

RECURSIVE UnusedOfImports(_, _, _, _, _)
\* findInFile's outer loop over the imports, from import i on
UnusedOfImports(filePath, imports, used, i, acc) ==
    IF i > Len(imports) THEN acc
    ELSE UnusedOfImports(filePath, imports, used, i + 1,
                         UnusedSpecifiers(filePath, imports[i], used, 1, acc))

\* UnusedFinder.findInFile: a file that cannot be read or parsed yields nothing
FindInFile(d, filePath) ==
    IF ~Parses(d.facts[filePath]) THEN <<>>
    ELSE UnusedOfImports(filePath, ExtractImports(d.facts[filePath]),
                         ExtractIdentifiers(d.facts[filePath]), 1, <<>>)

(***************************************************************************)
(* DeadCodeDetector.  A function node has its body's statements, or no     *)
(* block (an arrow function with an expression body).  A statement has a   *)
(* kind ("return", "throw", "expr", or "block" for a statement that holds  *)
(* a nested block, such as an if), its line, and the statements of its     *)
(* nested block.                                                           *)
(***************************************************************************)
IsExit(stmt) == stmt.kind \in {"return", "throw"}

RECURSIVE AfterExit(_, _, _, _)
\* findUnreachableCode's loop over body.body, from statement i on
AfterExit(body, i, foundReturn, acc) ==
    IF i > Len(body) THEN acc
    ELSE AfterExit(body, i + 1, foundReturn \/ IsExit(body[i]),
                   IF foundReturn
                   THEN Append(acc, [line |-> body[i].line, type |-> "unreachable-after-return"])
                   ELSE acc)

RECURSIVE UnreachableOfFuncs(_, _, _)
\* ASTParser.findUnreachableCode: the Function visitor, from function j on
UnreachableOfFuncs(funcs, j, acc) ==
    IF j > Len(funcs) THEN acc
    ELSE UnreachableOfFuncs(funcs, j + 1,
            IF funcs[j].blockBody THEN AfterExit(funcs[j].body, 1, FALSE, acc) ELSE acc)

FindUnreachableCode(facts) == UnreachableOfFuncs(facts.funcs, 1, <<>>)

\* IsUnusedDecl without the test of the function declaration's parent
IsUnusedDeclAnyParent(decl) ==
    IF decl.node = "VariableDeclarator"
    THEN decl.idIsIdentifier /\ ~decl.referenced
    ELSE ~decl.referenced

\* the visitors of findUnusedVariables on one declaration node
IsUnusedDecl(decl) ==
    IF decl.node = "VariableDeclarator"
    THEN decl.idIsIdentifier /\ ~decl.referenced
    ELSE ~decl.referenced /\ decl.parent = "Program"

\* ASTParser.findUnusedVariables
FindUnusedVariables(facts) ==
    LET unused == SelectSeq(facts.decls, IsUnusedDecl)
    IN  [i \in 1..Len(unused) |-> [name |-> unused[i].name, line |-> unused[i].line]]

\* ASTParser.findEmptyCatchBlocks
FindEmptyCatchBlocks(facts) ==
    LET empty == SelectSeq(facts.catches, LAMBDA c : c.empty)
    IN  [i \in 1..Len(empty) |-> [line |-> empty[i].line]]

\* DeadCodeDetector.detectInFile: a file that cannot be read or parsed yields nothing
DetectInFile(d, filePath) ==
    IF ~Parses(d.facts[filePath]) THEN <<>>
    ELSE LET unreachable == FindUnreachableCode(d.facts[filePath])
             unusedVars  == FindUnusedVariables(d.facts[filePath])
             emptyCatches == FindEmptyCatchBlocks(d.facts[filePath])
         IN  [i \in 1..Len(unreachable) |->
                 [file |-> filePath, line |-> unreachable[i].line, type |-> "unreachable",
                  description |-> <<"Unreachable code after return/throw statement">>]]
             \o [i \in 1..Len(unusedVars) |->
                 [file |-> filePath, line |-> unusedVars[i].line, type |-> "unused-var",
                  description |-> <<"Unused variable", unusedVars[i].name>>]]
             \o [i \in 1..Len(emptyCatches) |->
                 [file |-> filePath, line |-> emptyCatches[i].line, type |-> "empty-catch",
                  description |-> <<"Empty catch block - errors are silently ignored">>]]

(***************************************************************************)
(* ConfigAnalyzer.  An object of the manifest is the sequence of its       *)
(* [name, version] entries in key order.                                   *)
(***************************************************************************)
\* the package name analyzePackageJson takes from an import source
PkgName(source) ==
    IF StartsWith(source, <<"@">>)
    THEN LET parts == Split(source, "/")
         IN  Join(SubSeq(parts, 1, IF Len(parts) < 2 THEN Len(parts) ELSE 2), "/")
    ELSE Split(source, "/")[1]

\* the test of "only track external packages"
IsTracked(pkgName) == ~StartsWith(pkgName, <<".">>) /\ ~StartsWith(pkgName, <<"/">>)

\* Set.prototype.add on a Set kept in insertion order
SetAdd(set, x) == IF x \in Range(set) THEN set ELSE Append(set, x)

RECURSIVE AddImports(_, _, _)
\* the forEach over a file's imports, from import i on
AddImports(set, imports, i) ==
    IF i > Len(imports) THEN set
    ELSE AddImports(IF IsTracked(PkgName(imports[i].source))
                    THEN SetAdd(set, PkgName(imports[i].source)) ELSE set,
                    imports, i + 1)

\* one iteration of the loop over the files: a file that cannot be read or parsed
\* is skipped
CollectImports(set, d, filePath) ==
    IF ~Parses(d.facts[filePath]) THEN set
    ELSE AddImports(set, ExtractImports(d.facts[filePath]), 1)

\* the version of the name in the object, or null
VersionIn(obj, name) ==
    IF \E i \in DOMAIN obj : obj[i].name = name
    THEN obj[CHOOSE i \in DOMAIN obj : obj[i].name = name].version
    ELSE Null

\* {...pkg.dependencies, ...pkg.devDependencies}: the keys of the first, then the
\* new keys of the second; the second's value wins
MergeDeps(deps, devDeps) ==
    [i \in DOMAIN deps |->
        [name |-> deps[i].name,
         version |-> IF VersionIn(devDeps, deps[i].name) # Null
                     THEN VersionIn(devDeps, deps[i].name) ELSE deps[i].version]]
    \o SelectSeq(devDeps, LAMBDA e : VersionIn(deps, e.name) = Null)

\* analyzePackageJson's skipList
SkipList == { <<"t","y","p","e","s","c","r","i","p","t">>, <<"e","s","l","i","n","t">>,
              <<"p","r","e","t","t","i","e","r">>, <<"j","e","s","t">>,
              <<"v","i","t","e","s","t">>, <<"v","i","t","e">>,
              <<"w","e","b","p","a","c","k">>, <<"r","o","l","l","u","p">>,
              <<"e","s","b","u","i","l","d">>, <<"@","t","y","p","e","s","/">> }

\* IsUnusedDep without the skip list
IsUnusedDepNoSkip(set, depName) == depName \notin Range(set)

\* the test of one manifest entry in "check for unused dependencies"
IsUnusedDep(set, depName) ==
    /\ depName \notin Range(set)
    /\ ~\E skip \in SkipList : Includes(depName, skip)

\* "check for unused dependencies": the loop over Object.entries(dependencies)
UnusedDeps(set, dependencies) ==
    LET unused == SelectSeq(dependencies, LAMBDA e : IsUnusedDep(set, e.name))
    IN  [i \in 1..Len(unused) |->
            [name |-> unused[i].name, type |-> "unused",
             installedVersion |-> unused[i].version]]

\* "check for missing dependencies": the loop over allImports
MissingDeps(set, dependencies) ==
    LET missing == SelectSeq(set, LAMBDA n : VersionIn(dependencies, n) = Null)
    IN  [i \in 1..Len(missing) |-> [name |-> missing[i], type |-> "missing"]]

\* what analyzePackageJson returns for the collected names (unusedScripts is no
\* part of the report and is left out)
Analysis(set, pkg) ==
    LET dependencies == MergeDeps(pkg.dependencies, pkg.devDependencies)
    IN  [unused |-> UnusedDeps(set, dependencies),
         missing |-> MissingDeps(set, dependencies)]

(***************************************************************************)
(* Properties of the graph.                                                *)
(***************************************************************************)
Imports(p) == Range(nodes[p].imports)
ImportedBy(p) == Range(nodes[p].importedBy)

\* the number of positions of s that hold x
Count(s, x) == Cardinality({i \in 1..Len(s) : s[i] = x})

\* the import declarations of a scanned file that was read and parsed
ParsedImports(p) == IF Parses(disk.facts[p]) THEN disk.facts[p].imports ELSE <<>>

\* C1: in every state of a build, so in every graph build returns, B is in
\* A.imports if and only if A is in B.importedBy, for all nodes A and B
C1_Symmetry ==
    \A a \in DOMAIN nodes : \A b \in DOMAIN nodes :
        (b \in Imports(a)) <=> (a \in ImportedBy(b))

\* a returned graph with an edge, built from a file set of which one file threw
C1_Witness ==
    /\ pc = "built"
    /\ \E p \in ScanFiles : ~Parses(disk.facts[p]) /\ disk.facts[p].imports # <<>>
    /\ \E a \in DOMAIN nodes : \E b \in DOMAIN nodes : a # b /\ b \in Imports(a)

\* C2: no target occurs twice in a file's imports, and no file occurs twice in a
\* target's importedBy
C2_SetSemantics ==
    \A a \in DOMAIN nodes : \A b \in DOMAIN nodes :
        Count(nodes[a].imports, b) <= 1 /\ Count(nodes[a].importedBy, b) <= 1

\* C3: in the returned graph a parsed file A has an edge to B exactly when one of
\* A's imports begins with "." or "/", resolves to B, and B is a scanned file;
\* every id in an imports or importedBy is a node
C3_EdgesExact ==
    pc = "built" =>
        /\ \A a \in Range(disk.files) : Parses(disk.facts[a]) =>
              Imports(a) =
                 { t \in { ResolveImportPath(disk.exists, a, disk.facts[a].imports[i].source) :
                             i \in { j \in DOMAIN disk.facts[a].imports :
                                        disk.facts[a].imports[j].source[1] \in {".", "/"} } } :
                      t \in Range(disk.files) }
        /\ \A a \in DOMAIN nodes : Imports(a) \cup ImportedBy(a) \subseteq DOMAIN nodes

\* a returned graph where a file imports a file that comes later in the scan
\* order, and also an external package and an existing file outside the scan
C3_Witness ==
    /\ pc = "built"
    /\ \E i, j \in DOMAIN disk.files :
          /\ i < j
          /\ disk.files[j] \in Imports(disk.files[i])
          /\ \E k, l \in DOMAIN ParsedImports(disk.files[i]) :
                LET a == disk.files[i] IN
                /\ ResolveImportPath(disk.exists, a, ParsedImports(a)[k].source) = PathX
                /\ ParsedImports(a)[l].source[1] \notin {".", "/"}

\* the UnusedFile entries that report path p
Reported(p) == {i \in DOMAIN unusedFiles : unusedFiles[i].path = p}

\* C5: a file is reported as unused exactly when its importedBy is empty and its
\* path contains no entry-point fragment; a file named index.ts is never reported
C5_UnusedFilesExact ==
    "files" \in done =>
        /\ \A p \in Range(disk.files) :
              (Reported(p) # {}) <=>
                 /\ nodes[p].importedBy = <<>>
                 /\ \A e \in EntryPoints : ~Includes(p, e)
        /\ \A p \in Range(disk.files) :
              Basename(p) = <<"i","n","d","e","x",".","t","s">> => Reported(p) = {}

\* index.ts has no inbound edge, one other file is reported and one is imported
C5_Witness ==
    /\ "files" \in done
    /\ nodes[PathIndex].importedBy = <<>>
    /\ Reported(PathA) # {}
    /\ nodes[PathB].importedBy # <<>>

\* the graph has a closed chain of imports
HasImportCycle ==
    \E n \in 1..Cardinality(DOMAIN nodes) : \E c \in [1..n -> DOMAIN nodes] :
        /\ \A i \in 1..(n-1) : c[i+1] \in Imports(c[i])
        /\ c[1] \in Imports(c[n])

\* the graph is the ring a -> b -> index -> a and nothing else
IsRing ==
    /\ DOMAIN nodes = ScanFiles
    /\ nodes[PathA].imports = <<PathB>>
    /\ nodes[PathB].imports = <<PathIndex>>
    /\ nodes[PathIndex].imports = <<PathA>>

RingRotations == { <<PathA, PathB, PathIndex>>, <<PathB, PathIndex, PathA>>,
                   <<PathIndex, PathA, PathB>> }

\* C6: findCircularDependencies returns at least one cycle for a graph that has
\* an import cycle, and for the ring a cycle with the three files in import order
C6_CyclesFound ==
    "cycles" \in done =>
        /\ HasImportCycle => cycles # <<>>
        /\ IsRing => \E i \in DOMAIN cycles : cycles[i] \in RingRotations

\* the ring, traversed from b first
C6_Witness ==
    /\ "cycles" \in done
    /\ IsRing
    /\ keys[1] = PathB

\* C7: every returned sequence is non-empty, each element imports the next and
\* the last imports the first
C7_ClosedChains ==
    "cycles" \in done =>
        \A i \in DOMAIN cycles :
            LET c == cycles[i] IN
            /\ Len(c) >= 1
            /\ Range(c) \subseteq DOMAIN nodes
            /\ \A j \in 1..(Len(c) - 1) : c[j+1] \in Imports(c[j])
            /\ c[1] \in Imports(c[Len(c)])

\* a cycle that does not pass through the traversal's root was returned
C7_Witness ==
    /\ "cycles" \in done
    /\ \E i \in DOMAIN cycles : keys[1] \notin Range(cycles[i]) /\ Len(cycles[i]) >= 2

(***************************************************************************)
(* The projects of the unused-import specification: /w/a.ts with at most   *)
(* MaxDecls import declarations (line i holds declaration i) that bind     *)
(* each name at most once, as the parser requires, and at most MaxIdents   *)
(* other Identifier nodes; /w/b.ts imports moment and lodash and           *)
(* references lodash.                                                      *)
(***************************************************************************)
MaxDecls == 2
MaxIdents == 2

SrcMoment == <<"m","o","m","e","n","t">>
SrcLodash == <<"l","o","d","a","s","h">>

ImportNames == {"moment", "lodash"}
SpecifierLists == {<<>>, <<"moment">>, <<"lodash">>, <<"moment", "lodash">>}

\* the declarations bind no name twice
DistinctBindings(specs) ==
    \A i, j \in DOMAIN specs : i # j => Range(specs[i]) \cap Range(specs[j]) = {}

\* the import declarations for their sources and specifier lists
DeclSeq(src, sp) ==
    [i \in DOMAIN src |-> [source |-> src[i], specifiers |-> sp[i], line |-> i]]

IdentNodes == {[name |-> n, at |-> a] :
                  n \in ImportNames, a \in (CountedPlaces \cup SkippedPlaces) \ {"importBinding"}}

IdentSets == {s \in SUBSET IdentNodes : Cardinality(s) <= MaxIdents}

FixtureImports == << [source |-> SrcMoment, specifiers |-> <<"moment">>, line |-> 1],
                     [source |-> SrcLodash, specifiers |-> <<"lodash">>, line |-> 2] >>

FixtureFacts ==
    [NoFacts EXCEPT !.imports = FixtureImports,
                    !.idents = BindingIdents(FixtureImports)
                               \cup {[name |-> "lodash", at |-> "reference"]}]

ImportProject(ds, ids, st) ==
    [files |-> <<PathA, PathB>>, exists |-> DiskFiles, pkg |-> NoManifest,
     facts |-> [p \in {PathA, PathB} |->
                   IF p = PathB THEN FixtureFacts
                   ELSE [NoFacts EXCEPT !.status = st, !.imports = ds,
                                        !.idents = BindingIdents(ds) \cup ids]]]

InitImports ==
    /\ \E n \in 0..MaxDecls, ids \in IdentSets, st \in {"ok", "throws"} :
          \E src \in [1..n -> {SrcMoment, SrcLodash}],
             sp \in {x \in [1..n -> SpecifierLists] : DistinctBindings(x)} :
                disk = ImportProject(DeclSeq(src, sp), ids, st)
    /\ Fresh

\* one iteration of UnusedFinder.findInFiles: findInFile(file) and the push of its
\* result; findInProject returns after the last one
FindInFileStep ==
    /\ pc = "start"
    /\ idx <= Len(disk.files)
    /\ unusedImports' = unusedImports \o FindInFile(disk, disk.files[idx])
    /\ idx' = idx + 1
    /\ done' = IF idx = Len(disk.files) THEN done \cup {"imports"} ELSE done
    /\ UNCHANGED <<others, disk, pc, nodes, keys, unusedFiles, cycles, deadCode, allImports,
                   pkgAnalysis>>

NextImports == FindInFileStep

SpecImports == InitImports /\ [][NextImports]_vars

\* the UnusedImport that findInFile makes of specifier k of import i of file p
UnusedImportOf(p, i, k) ==
    LET imp == disk.facts[p].imports[i]
    IN  [file |-> p, line |-> imp.line, importName |-> imp.specifiers[k],
         from |-> imp.source]

\* C4: for every parsed file, each (import declaration, local name) pair is
\* reported once, with the declaration's line and source, when the name is not in
\* the file's used-identifier set and not at all when it is, and nothing else is
\* reported; the file that imports moment and lodash and references lodash
\* yields exactly moment
C4_UnusedImportsExact ==
    "imports" \in done =>
        /\ \A p \in Range(disk.files) : Parses(disk.facts[p]) =>
              \A i \in DOMAIN disk.facts[p].imports :
                 \A k \in DOMAIN disk.facts[p].imports[i].specifiers :
                    Count(unusedImports, UnusedImportOf(p, i, k)) =
                       IF disk.facts[p].imports[i].specifiers[k]
                             \in ExtractIdentifiers(disk.facts[p])
                       THEN 0 ELSE 1
        /\ \A j \in DOMAIN unusedImports :
              \E p \in Range(disk.files) : \E i \in DOMAIN disk.facts[p].imports :
                 \E k \in DOMAIN disk.facts[p].imports[i].specifiers :
                    /\ Parses(disk.facts[p])
                    /\ unusedImports[j] = UnusedImportOf(p, i, k)
        /\ SelectSeq(unusedImports, LAMBDA u : u.file = PathB)
              = << [file |-> PathB, line |-> 1, importName |-> "moment",
                    from |-> SrcMoment] >>

\* a.ts has one declaration that binds both names, of which it uses one
C4_Witness ==
    /\ "imports" \in done
    /\ Parses(disk.facts[PathA])
    /\ \E i \in DOMAIN disk.facts[PathA].imports :
          disk.facts[PathA].imports[i].specifiers = <<"moment", "lodash">>
    /\ ExtractIdentifiers(disk.facts[PathA]) = {"moment"}
    /\ Len(unusedImports) = 2

(***************************************************************************)
(* The projects of the dead-code specification: /w/a.ts with one function  *)
(* of at most MaxStmts statements, or with at most MaxDeclNodes            *)
(* declarations, and at most one catch clause.  Statement i of the body is *)
(* on line 10 i, statement k of its nested block on line 10 i + k;         *)
(* declaration i is on line 100 + i.                                       *)
(***************************************************************************)
MaxStmts == 3
MaxDeclNodes == 2

Simple(kind, line) == [kind |-> kind, line |-> line, inner |-> <<>>]

\* "ifReturnExpr" is `if (c) { return 1; f(); }`, "ifExprReturn" is `if (c) { f(); return 1; }`
StmtShapes == {"return", "throw", "expr", "ifReturnExpr", "ifExprReturn"}

Stmt(shape, i) ==
    IF shape = "ifReturnExpr"
    THEN [kind |-> "block", line |-> 10 * i,
          inner |-> <<Simple("return", 10 * i + 1), Simple("expr", 10 * i + 2)>>]
    ELSE IF shape = "ifExprReturn"
    THEN [kind |-> "block", line |-> 10 * i,
          inner |-> <<Simple("expr", 10 * i + 1), Simple("return", 10 * i + 2)>>]
    ELSE Simple(shape, 10 * i)

\* one function: an arrow function with an expression body, or a body of the shapes
Funcs(blockBody, sh) ==
    <<[blockBody |-> blockBody,
       body |-> IF blockBody THEN [i \in DOMAIN sh |-> Stmt(sh[i], i)] ELSE <<>>]>>

\* `function hasUnreachableCode() { return true; console.log(x); }`
FixtureFuncs == <<[blockBody |-> TRUE, body |-> <<Simple("return", 10), Simple("expr", 20)>>]>>

DeclShapes ==
    {[node |-> "VariableDeclarator", referenced |-> r, idIsIdentifier |-> b,
      parent |-> "VariableDeclaration"] : r \in BOOLEAN, b \in BOOLEAN}
    \cup {[node |-> "FunctionDeclaration", referenced |-> r, idIsIdentifier |-> TRUE,
           parent |-> q] : r \in BOOLEAN,
                           q \in {"Program", "BlockStatement", "ExportNamedDeclaration"}}

Decl(shape, i) ==
    [node |-> shape.node, referenced |-> shape.referenced,
     idIsIdentifier |-> shape.idIsIdentifier, parent |-> shape.parent,
     name |-> <<"d", i>>, line |-> 100 + i]

Decls(sh) == [i \in DOMAIN sh |-> Decl(sh[i], i)]

\* `const unusedVar = 'test'` and `function unusedFunction() {...}` at module scope
FixtureDecls ==
    << [node |-> "VariableDeclarator", referenced |-> FALSE, idIsIdentifier |-> TRUE,
        parent |-> "VariableDeclaration", name |-> <<"d", 1>>, line |-> 101],
       [node |-> "FunctionDeclaration", referenced |-> FALSE, idIsIdentifier |-> TRUE,
        parent |-> "Program", name |-> <<"d", 2>>, line |-> 102] >>

CatchChoices == { <<>>, <<[line |-> 200, empty |-> TRUE]>>, <<[line |-> 200, empty |-> FALSE]>> }

DeadProject(st, fs, ds, cs) ==
    [files |-> <<PathA>>, exists |-> DiskFiles, pkg |-> NoManifest,
     facts |-> [p \in {PathA} |->
                   [NoFacts EXCEPT !.status = st, !.funcs = fs, !.decls = ds,
                                   !.catches = cs]]]

InitDead ==
    /\ \E st \in {"ok", "throws"}, cs \in CatchChoices :
          \/ \E n \in 0..MaxStmts, blockBody \in BOOLEAN :
                \E sh \in [1..(IF blockBody THEN n ELSE 0) -> StmtShapes] :
                   disk = DeadProject(st, Funcs(blockBody, sh), FixtureDecls, cs)
          \/ \E n \in 0..MaxDeclNodes : \E sh \in [1..n -> DeclShapes] :
                disk = DeadProject(st, FixtureFuncs, Decls(sh), cs)
    /\ Fresh

\* one iteration of DeadCodeDetector.detectInFiles: detectInFile(file) and the push
\* of its issues; detectInProject returns after the last one
DetectInFileStep ==
    /\ pc = "start"
    /\ idx <= Len(disk.files)
    /\ deadCode' = deadCode \o DetectInFile(disk, disk.files[idx])
    /\ idx' = idx + 1
    /\ done' = IF idx = Len(disk.files) THEN done \cup {"dead"} ELSE done
    /\ UNCHANGED <<others, disk, pc, nodes, keys, unusedFiles, cycles, unusedImports, allImports,
                   pkgAnalysis>>

NextDead == DetectInFileStep

SpecDead == InitDead /\ [][NextDead]_vars

\* the number of issues of the type at the line
IssuesAt(type, line) ==
    Cardinality({i \in DOMAIN deadCode : deadCode[i].type = type /\ deadCode[i].line = line})

\* statement i of the list follows a return or throw of the same list
FollowsExit(list, i) == \E j \in 1..(i-1) : IsExit(list[j])

\* the issues are as claimed for the statements of one block
BlockAsClaimed(list) ==
    \A i \in DOMAIN list :
        IssuesAt("unreachable", list[i].line) = IF FollowsExit(list, i) THEN 1 ELSE 0

\* C8: in every function body, each statement that follows a return or throw of
\* its own block has exactly one unreachable issue at its line, and a statement
\* that follows none has no issue
C8_UnreachableExact ==
    "dead" \in done =>
        \A p \in Range(disk.files) : Parses(disk.facts[p]) =>
            \A j \in DOMAIN disk.facts[p].funcs :
                LET body == disk.facts[p].funcs[j].body IN
                /\ BlockAsClaimed(body)
                /\ \A i \in DOMAIN body : BlockAsClaimed(body[i].inner)

\* what the code does: C8 for the statements of the function body's own block
\* only; no statement of a nested block has an issue
C8_OwnBlockOnly ==
    "dead" \in done =>
        \A p \in Range(disk.files) : Parses(disk.facts[p]) =>
            \A j \in DOMAIN disk.facts[p].funcs :
                LET body == disk.facts[p].funcs[j].body IN
                /\ BlockAsClaimed(body)
                /\ \A i \in DOMAIN body : \A k \in DOMAIN body[i].inner :
                      IssuesAt("unreachable", body[i].inner[k].line) = 0

\* C9: every module-scope function declaration without references has an issue
\* of type unused-function at its line
C9_UnusedFunction ==
    "dead" \in done =>
        \A p \in Range(disk.files) : Parses(disk.facts[p]) =>
            \A i \in DOMAIN disk.facts[p].decls :
                LET decl == disk.facts[p].decls[i] IN
                (decl.node = "FunctionDeclaration" /\ decl.parent = "Program"
                    /\ ~decl.referenced)
                   => IssuesAt("unused-function", decl.line) >= 1

\* what the code does: such a declaration has one issue of type unused-var, and
\* no issue has the type unused-function
C9_ReportedAsUnusedVar ==
    "dead" \in done =>
        /\ \A i \in DOMAIN deadCode : deadCode[i].type # "unused-function"
        /\ \A p \in Range(disk.files) : Parses(disk.facts[p]) =>
              \A i \in DOMAIN disk.facts[p].decls :
                  LET decl == disk.facts[p].decls[i] IN
                  (decl.node = "FunctionDeclaration" /\ decl.parent = "Program"
                      /\ ~decl.referenced)
                     => IssuesAt("unused-var", decl.line) = 1

(***************************************************************************)
(* The projects of the dependency specification: a manifest or none,       *)
(* /w/a.ts with at most MaxDepImports import declarations, and /w/b.ts     *)
(* that imports date-fns.                                                  *)
(***************************************************************************)
MaxDepImports == 2

Axios   == <<"a","x","i","o","s">>
Vitest  == <<"v","i","t","e","s","t">>
Scoped  == <<"@","s","/","p">>
DateFns == <<"d","a","t","e","-","f","n","s">>

DepSources == { Axios, SrcLodash \o <<"/","f","p">>, Scoped \o <<"/","x">>, Vitest,
                <<".","/","b">>, <<"/","w","/","b",".","t","s">> }

Entries(names, version) == [i \in DOMAIN names |-> [name |-> names[i], version |-> version]]

Manifests ==
    {NoManifest, BadManifest}
    \cup {[present |-> TRUE, readable |-> TRUE, dependencies |-> Entries(d, <<"1">>),
           devDependencies |-> Entries(v, <<"2">>)] :
             d \in { <<>>, <<Axios>>, <<SrcLodash>>, <<Axios, SrcLodash>>, <<Vitest, Axios>>,
                     <<SrcLodash, Vitest>> },
             v \in { <<>>, <<Axios>>, <<Scoped>>, <<Scoped, Axios>> }}

DepProject(m, st, srcs) ==
    [files |-> <<PathA, PathB>>, exists |-> DiskFiles, pkg |-> m,
     facts |-> [p \in {PathA, PathB} |->
        IF p = PathB THEN [NoFacts EXCEPT !.imports = SideEffectImports(<<DateFns>>)]
        ELSE [NoFacts EXCEPT !.status = st, !.imports = SideEffectImports(srcs)]]]

InitDeps ==
    /\ \E m \in Manifests, st \in {"ok", "throws"}, n \in 0..MaxDepImports :
          \E srcs \in [1..n -> DepSources] : disk = DepProject(m, st, srcs)
    /\ Fresh

\* analyzePackageJson up to its loop: without a manifest it returns the empty
\* result
ReadManifest ==
    /\ pc = "start"
    /\ IF HasManifest(disk.pkg)
       THEN /\ pc' = "collect"
            /\ UNCHANGED <<pkgAnalysis, done>>
       ELSE /\ pc' = "returned"
            /\ pkgAnalysis' = NoAnalysis
            /\ done' = done \cup {"deps"}
    /\ UNCHANGED <<others, disk, idx, nodes, keys, unusedFiles, cycles, unusedImports, deadCode,
                   allImports>>

\* one iteration of the loop over the files; after the last one the two checks
\* run and analyzePackageJson returns
CollectStep ==
    /\ pc = "collect"
    /\ idx <= Len(disk.files)
    /\ allImports' = CollectImports(allImports, disk, disk.files[idx])
    /\ idx' = idx + 1
    /\ IF idx = Len(disk.files)
       THEN /\ pc' = "returned"
            /\ pkgAnalysis' = Analysis(allImports', disk.pkg)
            /\ done' = done \cup {"deps"}
       ELSE UNCHANGED <<pc, pkgAnalysis, done>>
    /\ UNCHANGED <<others, disk, nodes, keys, unusedFiles, cycles, unusedImports, deadCode>>

NextDeps == ReadManifest \/ CollectStep

SpecDeps == InitDeps /\ [][NextDeps]_vars

\* the root package name of an external import source: its first segment, or its
\* first two for a source that starts with "@"
ExternalRoot(src) ==
    LET segs == Split(src, "/")
    IN  IF src[1] = "@" /\ Len(segs) >= 2 THEN segs[1] \o <<"/">> \o segs[2] ELSE segs[1]

\* the roots of the external import sources of the files that were parsed
UsedRoots ==
    UNION {{ExternalRoot(disk.facts[p].imports[i].source) :
               i \in {j \in DOMAIN disk.facts[p].imports :
                         disk.facts[p].imports[j].source[1] \notin {".", "/"}}} :
           p \in {q \in Range(disk.files) : Parses(disk.facts[q])}}

\* the names the manifest declares
Declared == {disk.pkg.dependencies[i].name : i \in DOMAIN disk.pkg.dependencies}
            \cup {disk.pkg.devDependencies[i].name : i \in DOMAIN disk.pkg.devDependencies}

UnusedNamed(n) == {i \in DOMAIN pkgAnalysis.unused : pkgAnalysis.unused[i].name = n}

\* C10: with a manifest, the unused list holds one entry for each declared name
\* that is no used external root and includes no skip-list item, and nothing else
C10_UnusedDepsExact ==
    ("deps" \in done /\ HasManifest(disk.pkg)) =>
        /\ \A n \in Declared :
              Cardinality(UnusedNamed(n)) =
                 IF n \notin UsedRoots /\ ~\E skip \in SkipList : Includes(n, skip)
                 THEN 1 ELSE 0
        /\ \A i \in DOMAIN pkgAnalysis.unused :
              /\ pkgAnalysis.unused[i].name \in Declared
              /\ pkgAnalysis.unused[i].type = "unused"

\* axios is declared in both objects and imported nowhere, vitest is declared
\* and skipped, and the scoped package is declared and imported by a subpath
C10_Witness ==
    /\ "deps" \in done
    /\ {Axios, Vitest} \subseteq Declared
    /\ Axios \notin UsedRoots
    /\ Cardinality(UnusedNamed(Axios)) = 1
    /\ \E i \in DOMAIN disk.pkg.devDependencies : disk.pkg.devDependencies[i].name = Axios
    /\ UnusedNamed(Vitest) = {}

MissingNames == {pkgAnalysis.missing[i].name : i \in DOMAIN pkgAnalysis.missing}

\* C11: with a manifest, the names of the missing list are exactly the used
\* external roots that the manifest does not declare; sources that begin with "."
\* or "/" contribute no name
C11_MissingExact ==
    ("deps" \in done /\ HasManifest(disk.pkg)) =>
        /\ MissingNames = UsedRoots \ Declared
        /\ \A i \in DOMAIN pkgAnalysis.missing : pkgAnalysis.missing[i].type = "missing"

\* some parsed file has an import source that begins with "/"
HasAbsoluteImport ==
    \E p \in Range(disk.files) : Parses(disk.facts[p]) /\
        \E i \in DOMAIN disk.facts[p].imports : disk.facts[p].imports[i].source[1] = "/"

\* what the code does: an absolute-path source adds the empty name, which is
\* then reported missing
C11_AbsoluteAddsEmptyName ==
    ("deps" \in done /\ HasManifest(disk.pkg)) =>
        MissingNames = (UsedRoots \cup (IF HasAbsoluteImport THEN {<<>>} ELSE {})) \ Declared

\* C12: without a manifest (package.json absent or unreadable) the analysis
\* returns, and its unused and missing lists are empty
C12_NoManifestEmpty ==
    (~disk.pkg.present \/ ~disk.pkg.readable) =>
        /\ pc \in {"start", "returned"}
        /\ pkgAnalysis = NoAnalysis
        /\ allImports = <<>>
        /\ pc = "returned" <=> "deps" \in done

\* the analysis returned for a project whose package.json is no JSON and whose
\* files import packages
C12_Witness ==
    /\ "deps" \in done
    /\ disk.pkg = BadManifest
    /\ UsedRoots # {}

(***************************************************************************)
(* Scanner.scan.  The four classifiers run under Promise.all: each is a    *)
(* loop over the files with an await in every iteration, so their          *)
(* iterations interleave in any order.  In this specification pc and idx   *)
(* hold one position per classifier, and done holds the classifiers in the  *)
(* order in which they returned.  The Report's timestamp is left out.      *)
(***************************************************************************)
MaxScans == 2

RECURSIVE FindInFiles(_, _, _, _)
\* UnusedFinder.findInFiles, from file i on
FindInFiles(d, files, i, acc) ==
    IF i > Len(files) THEN acc
    ELSE FindInFiles(d, files, i + 1, acc \o FindInFile(d, files[i]))

RECURSIVE DetectInFiles(_, _, _, _)
\* DeadCodeDetector.detectInFiles, from file i on
DetectInFiles(d, files, i, acc) ==
    IF i > Len(files) THEN acc
    ELSE DetectInFiles(d, files, i + 1, acc \o DetectInFile(d, files[i]))

RECURSIVE ProcessFiles(_, _, _, _)
\* GraphBuilder.build's second loop, from file i on
ProcessFiles(ns, d, files, i) ==
    IF i > Len(files) THEN ns
    ELSE ProcessFiles(ProcessFileNodes(ns, d, files[i]), d, files, i + 1)

\* GraphBuilder.build on the nodes ns
Build(ns, d, files) == ProcessFiles(InitNodes(ns, files), d, files, 1)

\* StaleDetector.findUnusedFiles
FindUnusedFilesOf(d) == UnusedFilesOf(Build(<<>>, d, d.files), InitKeys(<<>>, d.files))

RECURSIVE CollectAll(_, _, _, _)
\* analyzePackageJson's loop over the files, from file i on
CollectAll(set, d, files, i) ==
    IF i > Len(files) THEN set
    ELSE CollectAll(CollectImports(set, d, files[i]), d, files, i + 1)

\* ConfigAnalyzer.analyzePackageJson
AnalyzePackageJson(d) ==
    IF HasManifest(d.pkg) THEN Analysis(CollectAll(<<>>, d, d.files, 1), d.pkg)
    ELSE NoAnalysis

\* ScanReport that puts the classifiers' lists in other positions
ScanReportMisplaced(ui, uf, dc, pa, files) ==
    [unusedImports |-> dc, unusedFiles |-> uf, deadCode |-> ui,
     dependencyIssues |-> pa.unused \o pa.missing, scannedFiles |-> Len(files)]

\* the DetoxReport that scan makes of the four results
ScanReport(ui, uf, dc, pa, files) ==
    [unusedImports |-> ui, unusedFiles |-> uf, deadCode |-> dc,
     dependencyIssues |-> pa.unused \o pa.missing, scannedFiles |-> Len(files)]

\* the import declarations /w/a.ts may hold
ScanImportsA ==
    { <<>>,
      << [source |-> SrcMoment, specifiers |-> <<"moment">>, line |-> 1] >>,
      << [source |-> <<".","/","b">>, specifiers |-> <<"lodash">>, line |-> 1],
         [source |-> Axios, specifiers |-> <<>>, line |-> 2] >> }

\* /w/b.ts imports ./a and lodash, references lodash, and holds the unreachable
\* statement
ScanImportsB ==
    << [source |-> <<".","/","a">>, specifiers |-> <<"moment">>, line |-> 1],
       [source |-> SrcLodash, specifiers |-> <<"lodash">>, line |-> 2] >>

\* at most one of the two files cannot be read or parsed
ScanStatuses ==
    { [p \in {PathA, PathB} |-> IF p = q THEN "throws" ELSE "ok"] : q \in {PathA, PathB, Null} }

ScanManifests ==
    { NoManifest,
      [present |-> TRUE, readable |-> TRUE, dependencies |-> Entries(<<Axios>>, <<"1">>),
       devDependencies |-> <<>>],
      [present |-> TRUE, readable |-> TRUE, dependencies |-> Entries(<<SrcLodash>>, <<"1">>),
       devDependencies |-> Entries(<<SrcMoment>>, <<"2">>)] }

ScanProject(st, ia, ids, dead, m) ==
    [files |-> <<PathA, PathB>>, exists |-> DiskFiles, pkg |-> m,
     facts |-> [p \in {PathA, PathB} |->
        IF p = PathA
        THEN [NoFacts EXCEPT !.status = st[p], !.imports = ia,
                             !.idents = BindingIdents(ia) \cup ids,
                             !.funcs = IF dead THEN FixtureFuncs ELSE <<>>,
                             !.decls = IF dead THEN FixtureDecls ELSE <<>>,
                             !.catches = IF dead THEN <<[line |-> 200, empty |-> TRUE]>>
                                         ELSE <<>>]
        ELSE [NoFacts EXCEPT !.status = st[p], !.imports = ScanImportsB,
                             !.idents = BindingIdents(ScanImportsB)
                                        \cup {[name |-> "lodash", at |-> "reference"]},
                             !.funcs = FixtureFuncs]]]

Classifiers == {"imports", "files", "dead", "deps"}

InitScan ==
    /\ \E st \in ScanStatuses, ia \in ScanImportsA, dead \in BOOLEAN, m \in ScanManifests,
          ids \in {{}, {[name |-> "moment", at |-> "reference"]}} :
             disk = ScanProject(st, ia, ids, dead, m)
    /\ pc = [c \in Classifiers \cup {"scan"} |-> "idle"]
    /\ idx = [c \in Classifiers |-> 1]
    /\ nodes = <<>>
    /\ keys = <<>>
    /\ unusedFiles = <<>>
    /\ cycles = <<>>
    /\ unusedImports = <<>>
    /\ deadCode = <<>>
    /\ allImports = <<>>
    /\ pkgAnalysis = NoAnalysis
    /\ done = <<>>
    /\ Idle

\* Scanner.scan up to Promise.all: every classifier starts with its own arrays,
\* and findUnusedFiles with a new GraphBuilder
ScanCall ==
    /\ pc.scan \in {"idle", "returned"}
    /\ Len(reports) < MaxScans
    /\ pc' = [scan |-> "running",
              imports |-> IF Len(disk.files) = 0 THEN "done" ELSE "run",
              files |-> "start",
              dead |-> IF Len(disk.files) = 0 THEN "done" ELSE "run",
              deps |-> "start"]
    /\ idx' = [c \in Classifiers |-> 1]
    /\ nodes' = <<>>
    /\ keys' = <<>>
    /\ unusedFiles' = <<>>
    /\ unusedImports' = <<>>
    /\ deadCode' = <<>>
    /\ allImports' = <<>>
    /\ pkgAnalysis' = NoAnalysis
    /\ done' = <<>>
    /\ UNCHANGED <<others, disk, cycles>>

\* one iteration of UnusedFinder.findInFiles
ScanFindInFile ==
    /\ pc.scan = "running" /\ pc.imports = "run"
    /\ unusedImports' = unusedImports \o FindInFile(disk, disk.files[idx.imports])
    /\ idx' = [idx EXCEPT !.imports = @ + 1]
    /\ pc' = [pc EXCEPT !.imports = IF idx.imports = Len(disk.files) THEN "done" ELSE "run"]
    /\ done' = IF idx.imports = Len(disk.files) THEN Append(done, "imports") ELSE done
    /\ UNCHANGED <<others, disk, nodes, keys, unusedFiles, cycles, deadCode, allImports,
                   pkgAnalysis>>

\* GraphBuilder.build's first loop; with no file, findUnusedFiles returns
ScanBuildNodes ==
    /\ pc.scan = "running" /\ pc.files = "start"
    /\ nodes' = InitNodes(nodes, disk.files)
    /\ keys' = InitKeys(keys, disk.files)
    /\ pc' = [pc EXCEPT !.files = IF Len(disk.files) = 0 THEN "done" ELSE "edges"]
    /\ done' = IF Len(disk.files) = 0 THEN Append(done, "files") ELSE done
    /\ UNCHANGED <<others, disk, idx, unusedFiles, cycles, unusedImports, deadCode,
                   allImports, pkgAnalysis>>

\* one iteration of build's second loop; after the last one build returns and
\* findUnusedFiles makes its list
ScanProcessFile ==
    /\ pc.scan = "running" /\ pc.files = "edges"
    /\ nodes' = ProcessFileNodes(nodes, disk, disk.files[idx.files])
    /\ idx' = [idx EXCEPT !.files = @ + 1]
    /\ IF idx.files = Len(disk.files)
       THEN /\ unusedFiles' = UnusedFilesOf(nodes', keys)
            /\ pc' = [pc EXCEPT !.files = "done"]
            /\ done' = Append(done, "files")
       ELSE UNCHANGED <<unusedFiles, pc, done>>
    /\ UNCHANGED <<others, disk, keys, cycles, unusedImports, deadCode, allImports,
                   pkgAnalysis>>

\* one iteration of DeadCodeDetector.detectInFiles
ScanDetectInFile ==
    /\ pc.scan = "running" /\ pc.dead = "run"
    /\ deadCode' = deadCode \o DetectInFile(disk, disk.files[idx.dead])
    /\ idx' = [idx EXCEPT !.dead = @ + 1]
    /\ pc' = [pc EXCEPT !.dead = IF idx.dead = Len(disk.files) THEN "done" ELSE "run"]
    /\ done' = IF idx.dead = Len(disk.files) THEN Append(done, "dead") ELSE done
    /\ UNCHANGED <<others, disk, nodes, keys, unusedFiles, cycles, unusedImports,
                   allImports, pkgAnalysis>>

\* analyzePackageJson up to its loop
ScanReadManifest ==
    /\ pc.scan = "running" /\ pc.deps = "start"
    /\ IF HasManifest(disk.pkg) /\ Len(disk.files) > 0
       THEN /\ pc' = [pc EXCEPT !.deps = "collect"]
            /\ UNCHANGED <<pkgAnalysis, done>>
       ELSE /\ pc' = [pc EXCEPT !.deps = "done"]
            /\ pkgAnalysis' = IF HasManifest(disk.pkg) THEN Analysis(<<>>, disk.pkg)
                              ELSE NoAnalysis
            /\ done' = Append(done, "deps")
    /\ UNCHANGED <<others, disk, idx, nodes, keys, unusedFiles, cycles, unusedImports,
                   deadCode, allImports>>

\* one iteration of analyzePackageJson's loop; after the last one the two checks
\* run
ScanCollect ==
    /\ pc.scan = "running" /\ pc.deps = "collect"
    /\ allImports' = CollectImports(allImports, disk, disk.files[idx.deps])
    /\ idx' = [idx EXCEPT !.deps = @ + 1]
    /\ IF idx.deps = Len(disk.files)
       THEN /\ pkgAnalysis' = Analysis(allImports', disk.pkg)
            /\ pc' = [pc EXCEPT !.deps = "done"]
            /\ done' = Append(done, "deps")
       ELSE UNCHANGED <<pkgAnalysis, pc, done>>
    /\ UNCHANGED <<others, disk, nodes, keys, unusedFiles, cycles, unusedImports,
                   deadCode>>

\* Promise.all is fulfilled: scan returns the Report
ScanReturn ==
    /\ pc.scan = "running"
    /\ \A c \in Classifiers : pc[c] = "done"
    /\ reports' = Append(reports, ScanReport(unusedImports, unusedFiles, deadCode,
                                             pkgAnalysis, disk.files))
    /\ pc' = [pc EXCEPT !.scan = "returned"]
    /\ UNCHANGED <<disk, idx, nodes, keys, unusedFiles, cycles, unusedImports, deadCode,
                   allImports, pkgAnalysis, done, resolutions, cmd, text, fixerOps>>

NextScan ==
    \/ ScanCall
    \/ ScanFindInFile
    \/ ScanBuildNodes
    \/ ScanProcessFile
    \/ ScanDetectInFile
    \/ ScanReadManifest
    \/ ScanCollect
    \/ ScanReturn

SpecScan == InitScan /\ [][NextScan]_vars

\* the files that cannot be read or parsed
Failing == {p \in Range(disk.files) : disk.facts[p].status # "ok"}

\* the project with empty files in place of the failing ones
WithFailingEmpty ==
    [disk EXCEPT !.facts = [p \in DOMAIN disk.facts |->
                               IF p \in Failing THEN NoFacts ELSE disk.facts[p]]]

\* the Report of the project d, each classifier run on its own from the first
\* file to the last
ReportOf(d) ==
    [unusedImports |-> FindInFiles(d, d.files, 1, <<>>),
     unusedFiles |-> FindUnusedFilesOf(d),
     deadCode |-> DetectInFiles(d, d.files, 1, <<>>),
     dependencyIssues |-> AnalyzePackageJson(d).unused \o AnalyzePackageJson(d).missing,
     scannedFiles |-> Len(d.files)]

\* C13: a failing file has no unused-import issue, no dead-code issue, no
\* outgoing edge and adds no package name, and every returned Report is the
\* Report of the project with empty files in place of the failing ones
C13_FailingFileSkipped ==
    /\ \A p \in Failing :
          /\ \A i \in DOMAIN unusedImports : unusedImports[i].file # p
          /\ \A i \in DOMAIN deadCode : deadCode[i].file # p
          /\ p \in DOMAIN nodes => nodes[p].imports = <<>>
    /\ Range(allImports) \subseteq
          UNION {{PkgName(disk.facts[p].imports[i].source) : i \in DOMAIN disk.facts[p].imports} :
                    p \in Range(disk.files) \ Failing}
    /\ \A k \in DOMAIN reports : reports[k] = ReportOf(WithFailingEmpty)

\* a scan returned for a project whose failing file holds an unused import, dead
\* code and an import of the other file
C13_Witness ==
    /\ Len(reports) >= 1
    /\ Failing = {PathA}
    /\ Len(disk.facts[PathA].imports) = 2
    /\ disk.facts[PathA].funcs # <<>>
    /\ HasManifest(disk.pkg)
    /\ \E i \in DOMAIN reports[1].deadCode : reports[1].deadCode[i].file = PathB

\* C14: when the build has returned, a file that cannot be read or parsed is in
\* no node's imports and its importedBy is empty
C14_FailingFileNoTarget ==
    pc = "built" =>
        \A p \in Range(disk.files) : disk.facts[p].status # "ok" =>
            /\ \A q \in DOMAIN nodes : p \notin Range(nodes[q].imports)
            /\ nodes[p].importedBy = <<>>

(***************************************************************************)
(* The calls of FileUtils.resolveImportPath: a directory /w/m and files    *)
(* beside and inside it, any of which may exist, and an import source of   *)
(* /w/a.ts that is resolved MaxCalls times on the unchanged disk.          *)
(***************************************************************************)
MaxCalls == 2

ResolveFiles ==
    { <<"/","w","/","m",".","j","s">>, <<"/","w","/","m",".","t","s">>,
      <<"/","w","/","m",".","j","s","o","n">>,
      <<"/","w","/","m","/","i","n","d","e","x",".","j","s">>,
      <<"/","w","/","m","/","i","n","d","e","x",".","t","s","x">>,
      <<"/","w","/","m","/","o",".","c","s","s">> }

ResolveSources ==
    { <<".","/","m">>, <<".","/","m",".","t","s">>, <<".",".","/","w","/","m">>,
      <<".","/","n">>, <<"/","w","/","m">>, <<"m">> }

InitResolve ==
    /\ \E e \in SUBSET ResolveFiles, src \in ResolveSources :
          disk = [files |-> <<PathA>>, exists |-> e, fromFile |-> PathA, importPath |-> src]
    /\ FreshState
    /\ reports = <<>>
    /\ resolutions = <<>>
    /\ cmd = NoCmd
    /\ text = <<>>
    /\ fixerOps = <<>>

\* one call of resolveImportPath(fromFile, importPath)
ResolveCall ==
    /\ Len(resolutions) < MaxCalls
    /\ resolutions' = Append(resolutions,
                             ResolveImportPath(disk.exists, disk.fromFile, disk.importPath))
    /\ UNCHANGED <<disk, pc, idx, nodes, keys, unusedFiles, cycles, unusedImports, deadCode,
                   allImports, pkgAnalysis, done, reports, cmd, text, fixerOps>>

NextResolve == ResolveCall

SpecResolve == InitResolve /\ [][NextResolve]_vars

\* the path that the source is joined to
Joined == PathResolve(Dirname(disk.fromFile), disk.importPath)

\* the probed candidates in the order of the claim: the path with each extension,
\* then the index file with each extension
Candidates ==
    [i \in 1..(2 * Len(Extensions)) |->
        IF i <= Len(Extensions) THEN Joined \o Extensions[i]
        ELSE Joined \o <<"/">> \o IndexName(Extensions[i - Len(Extensions)])]

\* the source is relative and its joined path has no extension
ExtensionlessRelative == disk.importPath[1] = "." /\ Extname(Joined) = <<>>

\* C15: for a relative source with an extensionless joined path, the result is
\* null when no candidate exists, and is never a path outside the candidates
C15_NoProbeNoResult ==
    ExtensionlessRelative =>
        \A k \in DOMAIN resolutions :
            /\ (\A i \in DOMAIN Candidates : Candidates[i] \notin disk.exists)
                  => resolutions[k] = Null
            /\ resolutions[k] \in Range(Candidates) \cup {Null}

\* C16: for a relative source with an extensionless joined path of which some
\* candidate exists, every call returns the first existing candidate, the path
\* with an extension before any index file
C16_FirstCandidateWins ==
    ExtensionlessRelative =>
        \A k \in DOMAIN resolutions :
            /\ \A i \in DOMAIN Candidates :
                  (/\ Candidates[i] \in disk.exists
                   /\ \A j \in 1..(i - 1) : Candidates[j] \notin disk.exists)
                     => resolutions[k] = Candidates[i]
            /\ resolutions[k] = resolutions[1]

\* two calls returned /w/m.ts although /w/m.json and both index files exist
C16_Witness ==
    /\ Len(resolutions) = 2
    /\ ExtensionlessRelative
    /\ resolutions[2] = <<"/","w","/","m",".","t","s">>
    /\ Cardinality(disk.exists) = 4

\* C17: every Report that scan returns holds the lists that the classifiers make
\* of the project on their own, in the classifiers' positions, whatever the
\* order in which they returned, and all Reports of the unchanged project are
\* equal
C17_ReportDeterministic ==
    \A k \in DOMAIN reports :
        /\ reports[k] = ReportOf(disk)
        /\ reports[k] = reports[1]

\* a second scan returned whose classifiers returned in the reverse of their
\* positions, for a project with issues of all four classifiers
C17_Witness ==
    /\ Len(reports) = 2
    /\ done = <<"deps", "dead", "files", "imports">>
    /\ reports[2].unusedImports # <<>>
    /\ reports[2].unusedFiles # <<>>
    /\ reports[2].deadCode # <<>>
    /\ reports[2].dependencyIssues # <<>>

(***************************************************************************)
(* One GraphBuilder whose build is called MaxBuilds times, each time with  *)
(* a file list of its own; done holds the numbers of the calls that have   *)
(* returned and were followed by another.                                  *)
(***************************************************************************)
MaxBuilds == 2

\* the file lists that build may be called with
BuildFileLists ==
    { <<PathA>>, <<PathB>>, <<PathA, PathB>>, <<PathB, PathA>>, <<PathB, PathIndex>>,
      <<PathA, PathB, PathIndex>> }

InitRebuild ==
    /\ \E fl \in BuildFileLists,
          a \in { <<>>, << <<".","/","b">> >>, << <<".","/","b">>, <<".","/","d">> >> },
          b \in { <<>>, << <<".","/","a">> >> },
          x \in { <<>>, << <<".",".","/","a">> >> } :
             disk = GraphProject(fl, GraphFacts([p \in ScanFiles |-> "ok"], a, b, x))
    /\ Fresh

\* the next call of build on the same GraphBuilder, after the last one returned
BuildAgain ==
    /\ pc = "built"
    /\ Cardinality(done) + 1 < MaxBuilds
    /\ \E fl \in BuildFileLists : disk' = [disk EXCEPT !.files = fl]
    /\ pc' = "start"
    /\ idx' = 1
    /\ done' = done \cup {Cardinality(done) + 1}
    /\ UNCHANGED <<others, nodes, keys, unusedFiles, cycles, unusedImports, deadCode,
                   allImports, pkgAnalysis>>

NextRebuild == BuildNodes \/ ProcessFile \/ BuildAgain

SpecRebuild == InitRebuild /\ [][NextRebuild]_vars

\* C18: when a call of build has returned, the nodes are the files of that call,
\* every edge joins two of them, and imports and importedBy mirror each other
C18_NoLeftover ==
    pc = "built" =>
        /\ DOMAIN nodes = Range(disk.files)
        /\ \A p \in DOMAIN nodes :
              Range(nodes[p].imports) \cup Range(nodes[p].importedBy) \subseteq Range(disk.files)
        /\ \A p, q \in DOMAIN nodes :
              Count(nodes[p].imports, q) = Count(nodes[q].importedBy, p)

\* what the code does: the first call's graph is as claimed
C18_FirstBuildClean ==
    (pc = "built" /\ done = {}) =>
        /\ DOMAIN nodes = Range(disk.files)
        /\ \A p, q \in DOMAIN nodes :
              Count(nodes[p].imports, q) = Count(nodes[q].importedBy, p)

(***************************************************************************)
(* Fixer.  A file's text is the sequence of its lines; a line has the      *)
(* number it had in the scanned text (id), whether it includes the word    *)
(* import, the names it includes, and how many times it was commented out. *)
(***************************************************************************)
\* the files of the items, each once, in the order of their first item: the keys
\* of byFile
RECURSIVE FilesOf(_, _, _)
FilesOf(items, i, acc) ==
    IF i > Len(items) THEN acc
    ELSE FilesOf(items, i + 1,
                 IF items[i].file \in Range(acc) THEN acc ELSE Append(acc, items[i].file))

RECURSIVE SortByLineDesc(_)
\* items.sort((a, b) => b.line - a.line): descending, and stable
SortByLineDesc(items) ==
    IF items = <<>> THEN <<>>
    ELSE LET m == CHOOSE l \in {items[i].line : i \in DOMAIN items} :
                     \A i \in DOMAIN items : items[i].line <= l
         IN  SelectSeq(items, LAMBDA x : x.line = m)
             \o SortByLineDesc(SelectSeq(items, LAMBDA x : x.line # m))

\* lines.splice(k - 1, 1) for the 1-based line number k
Splice(lines, k) == SubSeq(lines, 1, k - 1) \o SubSeq(lines, k + 1, Len(lines))

RECURSIVE SpliceImports(_, _, _, _)
\* removeUnusedImports' loop over a file's sorted imports, from import i on
SpliceImports(lines, imports, i, fixed) ==
    IF i > Len(imports) THEN [lines |-> lines, fixed |-> fixed]
    ELSE LET k == imports[i].line IN
         IF k - 1 < 0 \/ k - 1 >= Len(lines)
         THEN SpliceImports(lines, imports, i + 1, fixed)
         ELSE IF lines[k].importWord /\ imports[i].importName \in lines[k].names
         THEN SpliceImports(Splice(lines, k), imports, i + 1, fixed + 1)
         ELSE SpliceImports(lines, imports, i + 1, fixed)

RECURSIVE RemoveImportsOfFiles(_, _, _, _, _)
\* removeUnusedImports' loop over byFile, from file i on; a file that cannot be
\* read is left out
RemoveImportsOfFiles(txt, unusedImportList, files, i, fixed) ==
    IF i > Len(files) THEN [text |-> txt, count |-> fixed]
    ELSE IF files[i] \notin DOMAIN txt
    THEN RemoveImportsOfFiles(txt, unusedImportList, files, i + 1, fixed)
    ELSE LET imports == SelectSeq(unusedImportList, LAMBDA x : x.file = files[i])
             r == SpliceImports(txt[files[i]], SortByLineDesc(imports), 1, fixed)
         IN  RemoveImportsOfFiles([txt EXCEPT ![files[i]] = r.lines], unusedImportList,
                                  files, i + 1, r.fixed)

\* Fixer.removeUnusedImports
RemoveUnusedImports(txt, unusedImportList) ==
    RemoveImportsOfFiles(txt, unusedImportList, FilesOf(unusedImportList, 1, <<>>), 1, 0)

RECURSIVE RemoveUnusedFiles(_, _, _, _)
\* Fixer.removeUnusedFiles, from file i on: fs.unlink of each path
RemoveUnusedFiles(txt, files, i, removed) ==
    IF i > Len(files) THEN [text |-> txt, count |-> removed]
    ELSE IF files[i] \notin DOMAIN txt
    THEN RemoveUnusedFiles(txt, files, i + 1, removed)
    ELSE RemoveUnusedFiles([p \in (DOMAIN txt) \ {files[i]} |-> txt[p]], files, i + 1,
                           removed + 1)

RECURSIVE CommentLines(_, _, _, _)
\* commentDeadCode's loop over a file's sorted issues, from issue i on
CommentLines(lines, issues, i, fixed) ==
    IF i > Len(issues) THEN [lines |-> lines, fixed |-> fixed]
    ELSE LET k == issues[i].line IN
         IF k - 1 < 0 \/ k - 1 >= Len(lines)
         THEN CommentLines(lines, issues, i + 1, fixed)
         ELSE CommentLines([lines EXCEPT ![k].dead = @ + 1], issues, i + 1, fixed + 1)

RECURSIVE CommentOfFiles(_, _, _, _, _)
\* commentDeadCode's loop over byFile, from file i on
CommentOfFiles(txt, issues, files, i, fixed) ==
    IF i > Len(files) THEN [text |-> txt, count |-> fixed]
    ELSE IF files[i] \notin DOMAIN txt
    THEN CommentOfFiles(txt, issues, files, i + 1, fixed)
    ELSE LET own == SelectSeq(issues, LAMBDA x : x.file = files[i])
             r == CommentLines(txt[files[i]], SortByLineDesc(own), 1, fixed)
         IN  CommentOfFiles([txt EXCEPT ![files[i]] = r.lines], issues, files, i + 1,
                            r.fixed)

\* Fixer.commentDeadCode
CommentDeadCode(txt, issues) ==
    CommentOfFiles(txt, issues, FilesOf(issues, 1, <<>>), 1, 0)

(***************************************************************************)
(* The cli's fix and purge commands on a project of two files:             *)
(*   /w/a.ts   1 import moment from 'moment'                               *)
(*             2 export function f() {       (may reference moment)        *)
(*             3   return 1                                                *)
(*             4   g()                       (or blank)                    *)
(*             5 }                                                         *)
(*   /w/b.ts   1 import './a'                (or blank)                    *)
(***************************************************************************)
ImportLine(n, names) == [id |-> n, importWord |-> TRUE, names |-> names, dead |-> 0]
CodeLine(n, names) == [id |-> n, importWord |-> FALSE, names |-> names, dead |-> 0]

CliText(used, hasDead, bImportsA) ==
    [p \in {PathA, PathB} |->
        IF p = PathA
        THEN << ImportLine(1, {"moment"}), CodeLine(2, IF used THEN {"moment"} ELSE {}),
                CodeLine(3, {}), CodeLine(4, {}), CodeLine(5, {}) >>
        ELSE << IF bImportsA THEN ImportLine(1, {}) ELSE CodeLine(1, {}) >>]

CliFacts(used, hasDead, bImportsA) ==
    [p \in {PathA, PathB} |->
        IF p = PathA
        THEN LET imports == << [source |-> SrcMoment, specifiers |-> <<"moment">>,
                                line |-> 1] >>
             IN  [NoFacts EXCEPT
                    !.imports = imports,
                    !.idents = BindingIdents(imports)
                               \cup (IF used THEN {[name |-> "moment", at |-> "reference"]}
                                     ELSE {}),
                    !.funcs = << [blockBody |-> TRUE,
                                  body |-> IF hasDead
                                           THEN <<Simple("return", 3), Simple("expr", 4)>>
                                           ELSE <<Simple("return", 3)>>] >>,
                    !.exports = <<"f">>]
        ELSE [NoFacts EXCEPT
                !.imports = IF bImportsA THEN SideEffectImports(<< <<".","/","a">> >>)
                            ELSE <<>>]]

CliProject(used, hasDead, bImportsA) ==
    [files |-> <<PathA, PathB>>, exists |-> {PathA, PathB}, pkg |-> NoManifest,
     facts |-> CliFacts(used, hasDead, bImportsA),
     text |-> CliText(used, hasDead, bImportsA)]

\* the command lines: fix with any of its options, purge with or without --confirm
CommandLines ==
    {[command |-> "fix", imports |-> i, files |-> f, dead |-> d, dryRun |-> r,
      confirm |-> FALSE] : i \in BOOLEAN, f \in BOOLEAN, d \in BOOLEAN, r \in BOOLEAN}
    \cup {[command |-> "purge", imports |-> FALSE, files |-> FALSE, dead |-> FALSE,
           dryRun |-> FALSE, confirm |-> c] : c \in BOOLEAN}

InitCli ==
    /\ \E used \in BOOLEAN, hasDead \in BOOLEAN, bImportsA \in BOOLEAN :
          disk = CliProject(used, hasDead, bImportsA)
    /\ cmd \in CommandLines
    /\ text = disk.text
    /\ fixerOps = <<>>
    /\ reports = <<>>
    /\ resolutions = <<>>
    /\ FreshState

\* IsDryRun that never sees the option
IsDryRunNever(options) == FALSE

\* the fix action's test of options.dryRun
IsDryRun(options) == options.dryRun

\* the purge action's test of options.confirm
IsConfirmed(options) == options.confirm

\* the fix action up to its first Fixer call: the scan, and the return of a dry run
FixScan ==
    /\ pc = "start" /\ cmd.command = "fix"
    /\ reports' = Append(reports, ReportOf(disk))
    /\ pc' = IF IsDryRun(cmd) THEN "returned" ELSE "imports"
    /\ UNCHANGED <<disk, idx, nodes, keys, unusedFiles, cycles, unusedImports, deadCode,
                   allImports, pkgAnalysis, done, resolutions, cmd, text, fixerOps>>

\* the fix action's "Fixing unused imports" step
FixImports ==
    /\ pc = "imports" /\ cmd.command = "fix"
    /\ IF cmd.imports \/ (~cmd.files /\ ~cmd.dead)
       THEN /\ text' = RemoveUnusedImports(text, reports[1].unusedImports).text
            /\ fixerOps' = Append(fixerOps, [op |-> "removeUnusedImports",
                                             arg |-> reports[1].unusedImports])
       ELSE UNCHANGED <<text, fixerOps>>
    /\ pc' = "files"
    /\ UNCHANGED <<disk, idx, nodes, keys, unusedFiles, cycles, unusedImports, deadCode,
                   allImports, pkgAnalysis, done, reports, resolutions, cmd>>

\* the fix action's "Removing unused files" step
FixFiles ==
    /\ pc = "files" /\ cmd.command = "fix"
    /\ IF cmd.files
       THEN LET filePaths == [i \in DOMAIN reports[1].unusedFiles |->
                                 reports[1].unusedFiles[i].path]
            IN  /\ text' = RemoveUnusedFiles(text, filePaths, 1, 0).text
                /\ fixerOps' = Append(fixerOps, [op |-> "removeUnusedFiles",
                                                 arg |-> filePaths])
       ELSE UNCHANGED <<text, fixerOps>>
    /\ pc' = "dead"
    /\ UNCHANGED <<disk, idx, nodes, keys, unusedFiles, cycles, unusedImports, deadCode,
                   allImports, pkgAnalysis, done, reports, resolutions, cmd>>

\* the fix action's "Commenting out dead code" step, and its return
FixDead ==
    /\ pc = "dead" /\ cmd.command = "fix"
    /\ IF cmd.dead
       THEN /\ text' = CommentDeadCode(text, reports[1].deadCode).text
            /\ fixerOps' = Append(fixerOps, [op |-> "commentDeadCode",
                                             arg |-> reports[1].deadCode])
       ELSE UNCHANGED <<text, fixerOps>>
    /\ pc' = "returned"
    /\ UNCHANGED <<disk, idx, nodes, keys, unusedFiles, cycles, unusedImports, deadCode,
                   allImports, pkgAnalysis, done, reports, resolutions, cmd>>

\* the purge action up to its first Fixer call: the return without --confirm, or
\* the scan
PurgeScan ==
    /\ pc = "start" /\ cmd.command = "purge"
    /\ IF ~IsConfirmed(cmd)
       THEN /\ pc' = "returned"
            /\ UNCHANGED reports
       ELSE /\ pc' = "purgeImports"
            /\ reports' = Append(reports, ReportOf(disk))
    /\ UNCHANGED <<disk, idx, nodes, keys, unusedFiles, cycles, unusedImports, deadCode,
                   allImports, pkgAnalysis, done, resolutions, cmd, text, fixerOps>>

\* the purge action's removeUnusedImports
PurgeImports ==
    /\ pc = "purgeImports" /\ cmd.command = "purge"
    /\ text' = RemoveUnusedImports(text, reports[1].unusedImports).text
    /\ fixerOps' = Append(fixerOps, [op |-> "removeUnusedImports",
                                     arg |-> reports[1].unusedImports])
    /\ pc' = "purgeDead"
    /\ UNCHANGED <<disk, idx, nodes, keys, unusedFiles, cycles, unusedImports, deadCode,
                   allImports, pkgAnalysis, done, reports, resolutions, cmd>>

\* the purge action's commentDeadCode, and its return
PurgeDead ==
    /\ pc = "purgeDead" /\ cmd.command = "purge"
    /\ text' = CommentDeadCode(text, reports[1].deadCode).text
    /\ fixerOps' = Append(fixerOps, [op |-> "commentDeadCode", arg |-> reports[1].deadCode])
    /\ pc' = "returned"
    /\ UNCHANGED <<disk, idx, nodes, keys, unusedFiles, cycles, unusedImports, deadCode,
                   allImports, pkgAnalysis, done, reports, resolutions, cmd>>

NextCli ==
    \/ FixScan
    \/ FixImports
    \/ FixFiles
    \/ FixDead
    \/ PurgeScan
    \/ PurgeImports
    \/ PurgeDead

SpecCli == InitCli /\ [][NextCli]_vars

\* C19: fix with --dry-run invokes no Fixer operation and leaves every file and
\* every line as it was, whatever the other options
C19_DryRunChangesNothing ==
    (cmd.command = "fix" /\ cmd.dryRun) =>
        /\ fixerOps = <<>>
        /\ text = disk.text
        /\ pc \in {"start", "returned"}

\* a dry run with all three fix options returned after a scan that found an
\* unused import, unused files and dead code
C19_Witness ==
    /\ cmd.command = "fix" /\ cmd.dryRun /\ cmd.imports /\ cmd.files /\ cmd.dead
    /\ pc = "returned"
    /\ Len(reports) = 1
    /\ reports[1].unusedImports # <<>>
    /\ reports[1].unusedFiles # <<>>
    /\ reports[1].deadCode # <<>>

\* the operations that purge has invoked, by name
OpNames == [i \in DOMAIN fixerOps |-> fixerOps[i].op]

\* what the code does: purge without --confirm scans nothing, invokes no Fixer
\* operation and changes no file; purge with --confirm invokes removeUnusedImports
\* and then commentDeadCode on the Report's lists, after which no reported import
\* line is left and as many lines are commented as dead-code issues were
\* reported; it never invokes removeUnusedFiles nor deletes a file
PurgeSafe ==
    cmd.command = "purge" =>
        /\ ~cmd.confirm => (reports = <<>> /\ fixerOps = <<>> /\ text = disk.text)
        /\ "removeUnusedFiles" \notin Range(OpNames)
        /\ DOMAIN text = DOMAIN disk.text
        /\ (cmd.confirm /\ pc = "returned") =>
              /\ fixerOps = << [op |-> "removeUnusedImports",
                                arg |-> reports[1].unusedImports],
                               [op |-> "commentDeadCode", arg |-> reports[1].deadCode] >>
              /\ \A i \in DOMAIN reports[1].unusedImports :
                    LET u == reports[1].unusedImports[i] IN
                    \A k \in DOMAIN text[u.file] : text[u.file][k].id # u.line
              /\ \A p \in DOMAIN text :
                    Cardinality({k \in DOMAIN text[p] : text[p][k].dead > 0})
                       = Cardinality({i \in DOMAIN reports[1].deadCode :
                                         reports[1].deadCode[i].file = p})

\* C20: purge without --confirm performs no scan and no Fixer operation; with
\* --confirm it deletes no file, and when it has returned the reported unused
\* imports are removed and the reported dead-code lines are commented out
C20_PurgeAsClaimed ==
    /\ PurgeSafe
    /\ (cmd.command = "purge" /\ cmd.confirm /\ pc = "returned") =>
          \A i \in DOMAIN reports[1].deadCode :
              LET d == reports[1].deadCode[i] IN
              \E k \in DOMAIN text[d.file] :
                  text[d.file][k].id = d.line /\ text[d.file][k].dead > 0

\* the fix command line without any option
PlainFix == cmd.command = "fix" /\ ~cmd.imports /\ ~cmd.files /\ ~cmd.dead /\ ~cmd.dryRun

\* C21: fix without --imports, --files, --dead and --dry-run, when it has
\* returned, has removed the reported unused imports, removed the reported unused
\* files and commented out the reported dead code
C21_PlainFixFixesAll ==
    (PlainFix /\ pc = "returned") =>
        /\ \A i \in DOMAIN reports[1].unusedImports :
              LET u == reports[1].unusedImports[i] IN
              u.file \in DOMAIN text =>
                  \A k \in DOMAIN text[u.file] : text[u.file][k].id # u.line
        /\ \A i \in DOMAIN reports[1].unusedFiles :
              reports[1].unusedFiles[i].path \notin DOMAIN text
        /\ \A i \in DOMAIN reports[1].deadCode :
              LET d == reports[1].deadCode[i] IN
              d.file \in DOMAIN text =>
                  \E k \in DOMAIN text[d.file] : text[d.file][k].dead > 0

\* what the code does: fix without options invokes removeUnusedImports alone, so
\* no file is removed and no line is commented out
C21_PlainFixImportsOnly ==
    (PlainFix /\ pc = "returned") =>
        /\ fixerOps = << [op |-> "removeUnusedImports", arg |-> reports[1].unusedImports] >>
        /\ DOMAIN text = DOMAIN disk.text
        /\ \A p \in DOMAIN text : \A k \in DOMAIN text[p] : text[p][k].dead = 0

(***************************************************************************)
(* The projects of the CommonJS specification: /w/a.ts refers to ./b and   *)
(* to axios, by at most MaxRefs import declarations or require() calls     *)
(* (reference i is on line i); /w/b.ts is empty; the manifest declares     *)
(* axios.  findUnusedFiles and analyzePackageJson run in either order.     *)
(***************************************************************************)
MaxRefs == 2

RefKinds == {"import", "require"}

RefSources == { <<".","/","b">>, Axios }

\* the import declarations among the references, as extractImports returns them
ImportsOfRefs(refs) ==
    LET lined == [i \in DOMAIN refs |-> [source |-> refs[i].source, specifiers |-> <<>>,
                                         line |-> i, kind |-> refs[i].kind]]
        own   == SelectSeq(lined, LAMBDA r : r.kind = "import")
    IN  [i \in DOMAIN own |-> [source |-> own[i].source, specifiers |-> <<>>,
                               line |-> own[i].line]]

\* the require() calls among the references
RequiresOfRefs(refs) ==
    LET lined == [i \in DOMAIN refs |-> [source |-> refs[i].source, line |-> i,
                                         kind |-> refs[i].kind]]
        own   == SelectSeq(lined, LAMBDA r : r.kind = "require")
    IN  [i \in DOMAIN own |-> [source |-> own[i].source, line |-> own[i].line]]

RequireManifests ==
    { [present |-> TRUE, readable |-> TRUE, dependencies |-> Entries(d, <<"1">>),
       devDependencies |-> <<>>] : d \in { <<Axios>>, <<Axios, SrcLodash>> } }

RequireProject(m, refs) ==
    [files |-> <<PathA, PathB>>, exists |-> DiskFiles, pkg |-> m,
     facts |-> [p \in {PathA, PathB} |->
        IF p = PathA
        THEN [NoFacts EXCEPT !.imports = ImportsOfRefs(refs),
                             !.requires = RequiresOfRefs(refs)]
        ELSE NoFacts]]

InitRequire ==
    /\ \E m \in RequireManifests, n \in 0..MaxRefs :
          \E refs \in [1..n -> [kind : RefKinds, source : RefSources]] :
              disk = RequireProject(m, refs)
    /\ Fresh

\* StaleDetector.findUnusedFiles on the project
RequireFindUnusedFiles ==
    /\ pc = "start" /\ "files" \notin done
    /\ nodes' = Build(<<>>, disk, disk.files)
    /\ keys' = InitKeys(<<>>, disk.files)
    /\ unusedFiles' = FindUnusedFilesOf(disk)
    /\ done' = done \cup {"files"}
    /\ UNCHANGED <<others, disk, pc, idx, cycles, unusedImports, deadCode, allImports,
                   pkgAnalysis>>

\* ConfigAnalyzer.analyzePackageJson on the project
RequireAnalyzePackageJson ==
    /\ pc = "start" /\ "deps" \notin done
    /\ allImports' = CollectAll(<<>>, disk, disk.files, 1)
    /\ pkgAnalysis' = AnalyzePackageJson(disk)
    /\ done' = done \cup {"deps"}
    /\ UNCHANGED <<others, disk, pc, idx, nodes, keys, unusedFiles, cycles, unusedImports,
                   deadCode>>

NextRequire == RequireFindUnusedFiles \/ RequireAnalyzePackageJson

SpecRequire == InitRequire /\ [][NextRequire]_vars

\* the sources of the require() calls of the file p
Required(p) == {disk.facts[p].requires[i].source : i \in DOMAIN disk.facts[p].requires}

\* C22: a require() call of a relative path gives an import edge to the file it
\* resolves to, which is then not reported as unused, and a require() call of a
\* package makes the package's root a used one, which is then not reported as an
\* unused dependency
C22_RequireLikeImport ==
    \A p \in Range(disk.files) : \A s \in Required(p) :
        LET target == ResolveImportPath(disk.exists, p, s) IN
        /\ ("files" \in done /\ target \in Range(disk.files)) =>
              /\ target \in Range(nodes[p].imports)
              /\ p \in Range(nodes[target].importedBy)
              /\ Reported(target) = {}
        /\ ("deps" \in done /\ s[1] \notin {".", "/"}) =>
              UnusedNamed(ExternalRoot(s)) = {}

\* what the code does: a file or a package that is referred to by require() calls
\* alone gets no edge and no use, so both are reported
C22_RequireIgnored ==
    \A s \in Required(PathA) :
        (\A i \in DOMAIN disk.facts[PathA].imports : disk.facts[PathA].imports[i].source # s)
        => LET target == ResolveImportPath(disk.exists, PathA, s) IN
           /\ ("files" \in done /\ target = PathB) =>
                 /\ nodes[PathA].imports = SelectSeq(nodes[PathA].imports,
                                                     LAMBDA q : q # PathB)
                 /\ Cardinality(Reported(PathB)) = 1
           /\ ("deps" \in done /\ s = Axios) => Cardinality(UnusedNamed(Axios)) = 1

(***************************************************************************)
(* The projects of the stale-name specification: MaxStaleFiles files of    *)
(* /w whose names match a staleness pattern, nearly match one, or match    *)
(* none, and at most one import declaration from one of them to another.   *)
(***************************************************************************)
MaxStaleFiles == 2

\* b.ts, old-a.ts, old_a.ts, backup_a.ts, a.OLD.ts, a_Copy.ts, backup.ts,
\* golden.ts, a.deprecated.v2.ts, a.bak.ts
StaleNames ==
    { <<"b",".","t","s">>,
      <<"o","l","d","-","a",".","t","s">>,
      <<"o","l","d","_","a",".","t","s">>,
      <<"b","a","c","k","u","p","_","a",".","t","s">>,
      <<"a",".","O","L","D",".","t","s">>,
      <<"a","_","C","o","p","y",".","t","s">>,
      <<"b","a","c","k","u","p",".","t","s">>,
      <<"g","o","l","d","e","n",".","t","s">>,
      <<"a",".","d","e","p","r","e","c","a","t","e","d",".","v","2",".","t","s">>,
      <<"a",".","b","a","k",".","t","s">> }

StalePath(name) == <<"/","w","/">> \o name

\* the file lists: distinct files, in any glob order
StaleFileLists ==
    {fs \in [1..MaxStaleFiles -> {StalePath(n) : n \in StaleNames}] :
        \A i, j \in 1..MaxStaleFiles : i # j => fs[i] # fs[j]}

\* file `from` imports file `to` by its name, or no file imports any (from = 0)
StaleProject(fs, from, to) ==
    [files |-> fs, exists |-> Range(fs), pkg |-> NoManifest,
     facts |-> [p \in Range(fs) |->
        IF from # 0 /\ p = fs[from]
        THEN [NoFacts EXCEPT !.imports =
                 SideEffectImports(<< <<".","/">> \o Basename(fs[to]) >>)]
        ELSE NoFacts]]

InitStale ==
    /\ \E fs \in StaleFileLists, from \in 0..MaxStaleFiles, to \in 1..MaxStaleFiles :
          /\ from # to
          /\ from = 0 => to = 1
          /\ disk = StaleProject(fs, from, to)
    /\ Fresh

NextStale == BuildNodes \/ ProcessFile \/ FindUnusedFiles

SpecStale == InitStale /\ [][NextStale]_vars

\* the suffixes of a stale name
StaleSuffixes == { <<".","o","l","d">>, <<".","b","a","k">>, <<".","b","a","c","k","u","p">>,
                   <<".","c","o","p","y">>, <<"_","o","l","d">>,
                   <<"_","b","a","c","k","u","p">>, <<"_","c","o","p","y">> }

\* a name is stale by the suffixes, by one of the leading strings, or by holding
\* .deprecated, whatever the case of its letters
StaleBy(p, leads) ==
    LET b == ToLower(BasenameNoExt(p)) IN
    \/ \E s \in StaleSuffixes : EndsWith(b, s)
    \/ \E l \in leads : StartsWith(b, l)
    \/ Includes(b, <<".","d","e","p","r","e","c","a","t","e","d">>)

\* every reported file is reported once, with the stale reason exactly when its
\* name is stale by the leading strings, and the never-imported reason otherwise
ReasonsBy(leads) ==
    "files" \in done =>
        /\ \A p \in Range(disk.files) : Cardinality(Reported(p)) <= 1
        /\ \A i \in DOMAIN unusedFiles :
              unusedFiles[i].reason =
                 IF StaleBy(unusedFiles[i].path, leads) THEN "stale" ELSE "never-imported"

NestedUnused(p) ==
    {i \in DOMAIN disk.facts[p].decls :
        /\ disk.facts[p].decls[i].node = "FunctionDeclaration"
        /\ disk.facts[p].decls[i].parent = "BlockStatement"
        /\ ~disk.facts[p].decls[i].referenced}

NamesAt(p, places) == {x.name : x \in {y \in disk.facts[p].idents : y.at \in places}}

\* the names that file p imports and that are reported as unused
FlaggedIn(p) == {unusedImports[i].importName :
                    i \in {j \in DOMAIN unusedImports : unusedImports[j].file = p}}

\* C25: a name that occurs as a computed object property key or as a computed
\* member access is in the used-identifier set, and an import of that name is not
\* reported as unused
C25_ComputedCounted ==
    "imports" \in done =>
        \A p \in Range(disk.files) : Parses(disk.facts[p]) =>
            \A n \in NamesAt(p, {"computedKey", "computedMember"}) :
                /\ n \in ExtractIdentifiers(disk.facts[p])
                /\ n \notin FlaggedIn(p)

\* what the code does: a computed member access counts, and a computed property
\* key does not: an imported name that occurs at skipped places and as computed
\* keys alone is reported as unused
C25_ComputedKeySkipped ==
    "imports" \in done =>
        \A p \in Range(disk.files) : Parses(disk.facts[p]) =>
            /\ \A n \in NamesAt(p, {"computedMember"}) :
                  n \in ExtractIdentifiers(disk.facts[p]) /\ n \notin FlaggedIn(p)
            /\ \A n \in NamesAt(p, {"importBinding"}) :
                  n \notin NamesAt(p, CountedPlaces) => n \in FlaggedIn(p)

\* the nodes of the built graph in the order in which dfs was entered for them
DfsCalls == Traverse(nodes, keys).calls

\* C26 as stated: a node that the search reaches through a second import edge,
\* after it was explored, is traversed again: in a graph without import cycle a
\* node with two inbound edges is entered at least twice
C26_RevisitedThroughOtherPath ==
    ("cycles" \in done /\ ~HasImportCycle) =>
        \A p \in DOMAIN nodes :
            Len(nodes[p].importedBy) >= 2 => Count(DfsCalls, p) >= 2

\* C26: dfs is entered exactly once for every node, whether the node is met as a
\* root or through any number of import edges, and one cycle is returned twice
\* only when the import edge that closes it is held twice
C26_EnteredOnce ==
    "cycles" \in done =>
        /\ \A p \in DOMAIN nodes : Count(DfsCalls, p) = 1
        /\ Len(DfsCalls) = Cardinality(DOMAIN nodes)
        /\ \A i, j \in DOMAIN cycles :
              (i < j /\ cycles[i] = cycles[j]) =>
                  Count(nodes[cycles[i][Len(cycles[i])]].imports, cycles[i][1]) >= 2

\* findCircularDependencies has returned for a graph without import cycle in
\* which a file is imported by the two other files, one of which imports the other
C26_Witness ==
    /\ "cycles" \in done
    /\ ~HasImportCycle
    /\ \E p, q, r \in DOMAIN nodes :
          /\ p # q /\ q # r /\ p # r
          /\ p \in Imports(q) /\ p \in Imports(r) /\ q \in Imports(r)
          /\ keys[1] = r

(***************************************************************************)
(* The calls of Fixer.removeUnusedImports: /w/a.ts with at most MaxLines   *)
(* lines, each a line with the word import that binds x, y, both or        *)
(* neither of them, or a line without that word; a line may include a name *)
(* that it does not bind (`import yaml from 'yaml'` includes y).  The      *)
(* reported imports are bound names of the import lines, each with the     *)
(* number of its line.                                                     *)
(***************************************************************************)
MaxLines == 3

FixNames == {"x", "y"}

\* the lines: binds are the local names an import line binds, names the names
\* that line.includes(name) finds in it
FixLineShapes ==
    {sh \in [importWord : {TRUE}, binds : SUBSET FixNames, names : SUBSET FixNames] :
        sh.binds \subseteq sh.names}
    \cup {[importWord |-> FALSE, binds |-> {}, names |-> n] : n \in SUBSET FixNames}

FixText(shapes) ==
    [i \in DOMAIN shapes |-> [id |-> i, importWord |-> shapes[i].importWord,
                              names |-> shapes[i].names, dead |-> 0]]

\* the UnusedImports of the flagged names, in the order of findInFile: by line,
\* and x before y
FixReported(shapes, flagged) ==
    LET all == [k \in 1..(2 * Len(shapes)) |->
                   [file |-> PathA, line |-> (k + 1) \div 2,
                    importName |-> IF k % 2 = 1 THEN "x" ELSE "y",
                    from |-> SrcMoment]]
    IN  SelectSeq(all, LAMBDA u : u.importName \in flagged[u.line])

FixProject(shapes) ==
    [files |-> <<PathA>>, exists |-> {PathA}, pkg |-> NoManifest,
     facts |-> [p \in {PathA} |-> NoFacts],
     text |-> [p \in {PathA} |-> FixText(shapes)],
     binds |-> [i \in DOMAIN shapes |-> shapes[i].binds]]

InitFix ==
    /\ \E n \in 1..MaxLines : \E shapes \in [1..n -> FixLineShapes] :
          /\ \A i, j \in 1..n : i # j => shapes[i].binds \cap shapes[j].binds = {}
          /\ disk = FixProject(shapes)
          /\ \E flagged \in [1..n -> SUBSET FixNames] :
                /\ \A i \in 1..n : flagged[i] \subseteq shapes[i].binds
                /\ unusedImports = FixReported(shapes, flagged)
    /\ text = disk.text
    /\ pc = "start"
    /\ idx = 1
    /\ nodes = <<>>
    /\ keys = <<>>
    /\ unusedFiles = <<>>
    /\ cycles = <<>>
    /\ deadCode = <<>>
    /\ allImports = <<>>
    /\ pkgAnalysis = NoAnalysis
    /\ done = {}
    /\ reports = <<>>
    /\ resolutions = <<>>
    /\ cmd = NoCmd
    /\ fixerOps = <<>>

\* a call of Fixer.removeUnusedImports with the reported imports
FixerRemoveUnusedImports ==
    /\ pc = "start"
    /\ LET r == RemoveUnusedImports(text, unusedImports)
       IN  /\ text' = r.text
           /\ fixerOps' = Append(fixerOps, [op |-> "removeUnusedImports",
                                            arg |-> unusedImports, count |-> r.count])
    /\ pc' = "returned"
    /\ UNCHANGED <<disk, idx, nodes, keys, unusedFiles, cycles, unusedImports, deadCode,
                   allImports, pkgAnalysis, done, reports, resolutions, cmd>>

NextFix == FixerRemoveUnusedImports

SpecFix == InitFix /\ [][NextFix]_vars

\* the numbers that the deleted lines of file p had in the original text
Deleted(p) == {disk.text[p][i].id : i \in DOMAIN disk.text[p]}
              \ {text[p][i].id : i \in DOMAIN text[p]}

\* the names reported as unused for line k of file p
ReportedAt(p, k) == {unusedImports[i].importName :
                        i \in {j \in DOMAIN unusedImports :
                                  unusedImports[j].file = p /\ unusedImports[j].line = k}}

\* C27: every line that removeUnusedImports has deleted bound nothing but names
\* that were reported for it; a line that also binds a name that was not reported
\* is left in place
C27_OnlyWhollyUnusedLines ==
    pc = "returned" =>
        \A k \in Deleted(PathA) : disk.binds[k] \subseteq ReportedAt(PathA, k)

\* what the code does: a line that has the word import and a reported name of its
\* own is deleted, whatever else it binds
C27_WholeLineDeleted ==
    pc = "returned" =>
        \A k \in DOMAIN disk.text[PathA] :
            (disk.text[PathA][k].importWord /\ ReportedAt(PathA, k) # {})
                => k \in Deleted(PathA)

\* C28: every deleted line stood at the line number of some reported import in
\* the original text, also when several reported imports share one line number,
\* and the returned count is the number of deleted lines
C28_OnlyReportedLines ==
    pc = "returned" =>
        /\ \A k \in Deleted(PathA) : ReportedAt(PathA, k) # {}
        /\ fixerOps[1].count = Cardinality(Deleted(PathA))

\* what the code does: the count is the number of deleted lines, and with no two
\* reported imports on one line the deleted lines are the reported ones
C28_DistinctLinesExact ==
    pc = "returned" =>
        /\ fixerOps[1].count = Cardinality(Deleted(PathA))
        /\ (\A i, j \in DOMAIN unusedImports :
               i # j => unusedImports[i].line # unusedImports[j].line)
           => Deleted(PathA) = {k \in DOMAIN disk.text[PathA] : ReportedAt(PathA, k) # {}}

\* C29: on every built graph, whatever self-imports, mutual imports and duplicate
\* edges it has, the call of findCircularDependencies can return, its search
\* enters dfs no more often than there are nodes and returns cycles no longer
\* than that; and no step of findCircularDependencies or getUnusedFiles changes a
\* node's imports, importedBy or exports
C29_TerminatesReadOnly ==
    /\ [][pc = "built" => nodes' = nodes]_vars
    /\ []((pc = "built" /\ "cycles" \notin done) => ENABLED FindCycles)
    /\ []("cycles" \in done =>
             /\ Len(DfsCalls) <= Cardinality(DOMAIN nodes)
             /\ \A i \in DOMAIN cycles : Len(cycles[i]) <= Cardinality(DOMAIN nodes))

\* the graph specification with a findCircularDependencies call that is not put
\* off for ever: the cli calls it right after the build
SpecFair == Spec /\ WF_vars(FindCycles)

\* then every built graph gets its list of cycles
C29_Returns == (pc = "built") ~> ("cycles" \in done)

\* both classifiers have returned for a graph in which index.ts imports itself
\* and a.ts and b.ts import each other
C29_Witness ==
    /\ "cycles" \in done /\ "files" \in done
    /\ PathIndex \in Imports(PathIndex)
    /\ PathB \in Imports(PathA) /\ PathA \in Imports(PathB)
    /\ Len(cycles) = 2

====
